---- MODULE Spec2Model ----
(***************************************************************************)
(* ClutterBoxLayout (clutter/clutter-box-layout.c): the single-axis box    *)
(* layout manager.  The model follows one layout manager attached to one   *)
(* container: the children of the container with their layout properties   *)
(* (ClutterBoxChild), the private configuration of the layout              *)
(* (ClutterBoxLayoutPrivate) and the outcome of the most recent call of    *)
(* clutter_box_layout_allocate().                                          *)
(*                                                                         *)
(* Sizes are whole pixels.  Coordinates of the rectangles handed to the    *)
(* children are kept in fixed point, Unit steps per pixel, because the     *)
(* code centres a non-filling child with a float division by two.          *)
(*                                                                         *)
(* Two more widgets of the toolkit are followed, each in a specification   *)
(* of its own: a ClutterScrollActor with the transition it owns            *)
(* (clutter/clutter-scroll-actor.c) and the text and cursor position of a  *)
(* ClutterEntry (clutter/clutter-entry.c).                                 *)
(***************************************************************************)
EXTENDS Integers, Sequences, FiniteSets, TLC

\* Bounds of the model.
MaxChildren == 2
MaxMin == 1
MaxGap == 1
MaxSpacing == 1
MaxExtent == 7
MaxGarbage == 1
MaxPacked == 1
MaxRequests == 3
MaxShare == 3
MaxDuration == 2
MaxCalls == 2
MaxText == 4
CrossExtent == 1

\* Fixed-point resolution of coordinates: the "/ 2" of the centring code.
Unit == 2

\* the animation progress 1.0; the rectangle a child is given is kept in
\* steps of 1 / (Unit * ProgressOne) pixel, so that an interpolation at
\* half of the way is exact
ProgressOne == 2

VARIABLES
  children,        \* the container's children, in declaration order
  priv,            \* ClutterBoxLayoutPrivate
  text_direction,  \* text direction of the container
  pass,            \* what the last clutter_box_layout_allocate() did
  query,           \* the preferred size the layout last answered
  progress,        \* progress of the layout manager's animation, in
                   \* steps of 1 / ProgressOne
  call,            \* the last call of the per-child API and its outcome
  scroll,          \* a ClutterScrollActor and the transition it owns
  entry            \* a ClutterEntry: ClutterEntryPrivate

vars == <<children, priv, text_direction, pass, query, progress, call, scroll, entry>>

----------------------------------------------------------------------------
\* C helpers

MAX(a, b) == IF a > b THEN a ELSE b

MIN(a, b) == IF a < b THEN a ELSE b

\* gint division and remainder: C truncates toward zero (b > 0)
CDiv(a, b) == IF a >= 0 THEN a \div b ELSE -((-a) \div b)

CMod(a, b) == a - b * CDiv(a, b)

RECURSIVE SumSeq(_)
SumSeq(s) == IF s = <<>> THEN 0 ELSE Head(s) + SumSeq(Tail(s))

----------------------------------------------------------------------------
\* Input domains

\* (minimum, natural) of a child's preferred size along the primary axis
Requests == {<<m, m + g>> : m \in {0, MaxMin}, g \in {0, MaxGap}}

\* the requests of children whose natural size is their minimum size
WalkRequests == {<<m, m>> : m \in {0, MaxMin}}

SpacingValues == {0, MaxSpacing}

\* (x_fill, y_fill) as the callers set them: both axes alike
FillValues == {<<FALSE, FALSE>>, <<TRUE, TRUE>>}

\* what a read past the end of the sizes[] array can find on the stack
Garbage == {-1, MaxGarbage}

\* (x_align, y_align) as the callers set them: both axes alike
AlignValues == {<<a, a>> : a \in {"START", "CENTER", "END"}}

\* the ClutterContainer a layout manager can be attached to, or NULL
Containers == {"NULL", "container"}

\* the request arrays clutter_box_layout_allocate() can hand to
\* distribute_natural_allocation(): 0 <= minimum <= natural for every
\* request (the pass has ended with g_error() otherwise)
ValidRequests == {<<m, m + g>> : m \in {0, MaxMin}, g \in 0..MaxShare}

RequestArrays ==
  UNION {[1..n -> {[actor |-> 0, minimum_size |-> r[1],
                    natural_size |-> r[2]] : r \in ValidRequests}] :
         n \in 0..MaxRequests}

\* the extra_space of a call; the pass never hands over a negative one
ExtraSpaces == -1..MaxExtent

\* what g_return_val_if_fail does with a failed check: log a critical and
\* return (the default), abort on the critical (G_DEBUG=fatal-criticals),
\* or nothing at all (G_DISABLE_CHECKS)
GLibChecks == {"critical", "fatal", "disabled"}

\* what a child of an animated container can report: a valid request, a
\* natural size below the minimum size, a negative minimum size
AnimRequests == {<<MaxMin, MaxMin>>, <<MaxMin, 0>>, <<-1, 0>>}

\* the animation progress the timeline can be at
ProgressValues == 0..ProgressOne

Extents == 0..MaxExtent

\* clutter_box_child_init(), with the preferred size the actor reports
NoBox == [x1 |-> 0, y1 |-> 0, x2 |-> 0, y2 |-> 0]

NewBoxChild(r) ==
  [minimum_size |-> r[1], natural_size |-> r[2], visible |-> TRUE,
   expand |-> FALSE, x_fill |-> FALSE, y_fill |-> FALSE,
   x_align |-> "CENTER", y_align |-> "CENTER",
   has_last_allocation |-> FALSE, last_allocation |-> NoBox]

----------------------------------------------------------------------------
\* count_expand_children()

VisibleChildren(ch) ==
  SelectSeq([d \in 1..Len(ch) |-> d], LAMBDA d : ch[d].visible)

count_expand_children(ch) ==
  [visible_children |-> Cardinality({d \in 1..Len(ch) : ch[d].visible}),
   expand_children  |->
     Cardinality({d \in 1..Len(ch) : ch[d].visible /\ ch[d].expand})]

\* the first loop of clutter_box_layout_allocate(): sizes[i] for the i-th
\* visible child (sizes[1] here is the code's sizes[0])
RequestedSizes(ch) ==
  LET vis == VisibleChildren(ch)
  IN  [k \in 1..Len(vis) |->
        [actor        |-> vis[k],
         minimum_size |-> ch[vis[k]].minimum_size,
         natural_size |-> ch[vis[k]].natural_size]]

\* a check of the minimum sizes alone
RequestsValidMinimumOnly(sizes) ==
  \A k \in 1..Len(sizes) : ~(sizes[k].minimum_size < 0)

\* the two g_error() checks of the first loop
RequestsValid(sizes) ==
  \A k \in 1..Len(sizes) :
    /\ ~(sizes[k].minimum_size < 0)
    /\ ~(sizes[k].natural_size < sizes[k].minimum_size)

----------------------------------------------------------------------------
\* distribute_natural_allocation()

\* a comparison that puts the smaller gap first
compare_gap_ascending(sizes, c1, c2) ==
  LET d1 == MAX(sizes[c1].natural_size - sizes[c1].minimum_size, 0)
      d2 == MAX(sizes[c2].natural_size - sizes[c2].minimum_size, 0)
      delta == d1 - d2
  IN  IF 0 = delta THEN c2 - c1 ELSE delta

\* a comparison that puts the lower index first among equal gaps
compare_gap_lower_first(sizes, c1, c2) ==
  LET d1 == MAX(sizes[c1].natural_size - sizes[c1].minimum_size, 0)
      d2 == MAX(sizes[c2].natural_size - sizes[c2].minimum_size, 0)
      delta == d2 - d1
  IN  IF 0 = delta THEN c1 - c2 ELSE delta

compare_gap(sizes, c1, c2) ==
  LET d1 == MAX(sizes[c1].natural_size - sizes[c1].minimum_size, 0)
      d2 == MAX(sizes[c2].natural_size - sizes[c2].minimum_size, 0)
      delta == d2 - d1
  IN  IF 0 = delta THEN c2 - c1 ELSE delta

RECURSIVE InsertSorted(_, _, _)
InsertSorted(sizes, s, c) ==
  IF s = <<>> THEN <<c>>
  ELSE IF compare_gap(sizes, c, Head(s)) < 0
       THEN <<c>> \o s
       ELSE <<Head(s)>> \o InsertSorted(sizes, Tail(s), c)

\* g_qsort_with_data (spreading, n, ..., compare_gap, sizes) on the
\* identity array: the indices sorted by compare_gap
RECURSIVE SortSpreading(_, _)
SortSpreading(sizes, n) ==
  IF n = 0 THEN <<>>
  ELSE InsertSorted(sizes, SortSpreading(sizes, n - 1), n)

\* a share that is the glue alone, whatever the request's gap
DistributeShareGlue(extra_space, i, gap) ==
  CDiv(extra_space + (i - 1), i)

\* a share that fills the request's gap as far as the space goes
DistributeShareGreedy(extra_space, i, gap) ==
  MIN(extra_space, gap)

\* one turn of the distribution loop at position i (the code's i is i - 1)
DistributeShare(extra_space, i, gap) ==
  LET glue == CDiv(extra_space + (i - 1), i)
  IN  MIN(glue, gap)

\* (served: the requests in the order in which the loop has taken them)
RECURSIVE DistributeLoop(_, _, _, _)
DistributeLoop(extra_space, i, spreading, sizes) ==
  IF ~(extra_space > 0 /\ i >= 1)
  THEN [extra_space |-> extra_space, sizes |-> sizes, served |-> <<>>]
  ELSE LET gap == sizes[spreading[i]].natural_size
                  - sizes[spreading[i]].minimum_size
           extra == DistributeShare(extra_space, i, gap)
           rest == DistributeLoop(extra_space - extra, i - 1, spreading,
                     [sizes EXCEPT ![spreading[i]].minimum_size = @ + extra])
       IN  [rest EXCEPT !.served = <<spreading[i]>> \o @]

\* a distribution that reports no remainder
distribute_natural_allocation_all(extra_space, n_requested_sizes, sizes) ==
  [DistributeLoop(extra_space, n_requested_sizes,
                  SortSpreading(sizes, n_requested_sizes), sizes)
     EXCEPT !.extra_space = 0]

\* a distribution that takes the magnitude of a negative extra_space
distribute_natural_allocation_abs(extra_space, n_requested_sizes, sizes) ==
  DistributeLoop(IF extra_space >= 0 THEN extra_space ELSE 0 - extra_space,
                 n_requested_sizes,
                 SortSpreading(sizes, n_requested_sizes), sizes)

\* the function as built with G_DISABLE_CHECKS, where g_return_val_if_fail
\* expands to nothing
distribute_natural_allocation_unchecked(extra_space, n, sizes) ==
  DistributeLoop(extra_space, n, SortSpreading(sizes, n), sizes)

distribute_natural_allocation(extra_space, n_requested_sizes, sizes) ==
  IF ~(extra_space >= 0)
  THEN [extra_space |-> 0, sizes |-> sizes, served |-> <<>>]
  ELSE DistributeLoop(extra_space, n_requested_sizes,
                      SortSpreading(sizes, n_requested_sizes), sizes)

----------------------------------------------------------------------------
\* clutter_box_layout_allocate()

BoxWidth(box) == box.x2 - box.x1

BoxHeight(box) == box.y2 - box.y1

PrimaryExtent(p, box) == IF p.is_vertical THEN BoxHeight(box) ELSE BoxWidth(box)

\* size = extent - (nvis_children - 1) * priv->spacing
AvailableSize(p, box, nvis_children) ==
  PrimaryExtent(p, box) - (nvis_children - 1) * p.spacing

\* size -= sizes[i].minimum_size, over the visible children
SlackSize(p, box, sizes) ==
  AvailableSize(p, box, Len(sizes))
    - SumSeq([k \in 1..Len(sizes) |-> sizes[k].minimum_size])

\* the argument the pass hands to distribute_natural_allocation()
DistributeArgument(size) == MAX(0, size)

\* extra and n_extra_widgets of the homogeneous branch
\* a split that rounds toward minus infinity, as an arithmetic shift would
HomogeneousSplitFloor(size, nvis_children) ==
  [extra           |-> size \div nvis_children,
   n_extra_widgets |-> size % nvis_children]

HomogeneousSplit(size, nvis_children) ==
  [extra           |-> CDiv(size, nvis_children),
   n_extra_widgets |-> CMod(size, nvis_children)]

\* extra and n_extra_widgets of the non-homogeneous branch
ExpandSplit(size, nexpand_children) ==
  IF nexpand_children > 0
  THEN [extra           |-> CDiv(size, nexpand_children),
        n_extra_widgets |-> CMod(size, nexpand_children)]
  ELSE [extra |-> 0, n_extra_widgets |-> 0]

IsRtl(p, dir) == IF ~p.is_vertical THEN dir = "RTL" ELSE FALSE

\* the cursor (x or y) before the first child is placed
\* a walk that always starts at the far edge of the box
StartCursorFarEdge(p, box) == PrimaryExtent(p, box)

StartCursor(p, box) ==
  IF p.is_pack_start THEN 0 ELSE PrimaryExtent(p, box)

\* the index the position walk uses into sizes[] for the child declared at
\* position d: i starts at g_list_length (children) - 1 and is decremented
\* once per list node, visible or not
WalkIndex(d) == d

\* the positions whose sizes[i] lies past the end of the array
OutOfBounds(ch) ==
  LET nvis_children == count_expand_children(ch).visible_children
  IN  {d \in 1..Len(ch) : ch[d].visible /\ WalkIndex(d) > nvis_children}

\* sizes[i].minimum_size as the walk reads it
ReadMinimumSize(sizes, i, garbage) ==
  IF i \in 1..Len(sizes) THEN sizes[i].minimum_size ELSE garbage[i]

\* does the visited child take one of the n_extra_widgets units
TakesExtraUnit(p, box_child, n_extra_widgets) ==
  /\ n_extra_widgets > 0
  /\ (p.is_homogeneous \/ box_child.expand)

\* a homogeneous share that never goes below the child's minimum size
ChildSizeAtLeastMinimum(p, box_child, minimum_size, extra, n_extra_widgets) ==
  IF p.is_homogeneous
  THEN MAX(minimum_size, extra) + (IF n_extra_widgets > 0 THEN 1 ELSE 0)
  ELSE minimum_size
       + (IF box_child.expand
          THEN extra + (IF n_extra_widgets > 0 THEN 1 ELSE 0)
          ELSE 0)

\* "Assign the child's size."
ChildSize(p, box_child, minimum_size, extra, n_extra_widgets) ==
  IF p.is_homogeneous
  THEN extra + (IF n_extra_widgets > 0 THEN 1 ELSE 0)
  ELSE minimum_size
       + (IF box_child.expand
          THEN extra + (IF n_extra_widgets > 0 THEN 1 ELSE 0)
          ELSE 0)

\* a span that is laid forward from the cursor in both packing directions
ChildSpanForward(p, box_child, cursor, child_size, minimum_size) ==
  LET fill == IF p.is_vertical THEN box_child.y_fill ELSE box_child.x_fill
      a1 == IF fill
            THEN Unit * cursor
            ELSE Unit * cursor + ((child_size - minimum_size) * Unit) \div 2
      a2 == IF fill
            THEN a1 + Unit * MAX(1, child_size)
            ELSE a1 + Unit * minimum_size
  IN  <<a1, a2>>

\* "Assign the child's position.": the span along the primary axis, in
\* Unit steps, before the right-to-left mirroring
ChildSpan(p, box_child, cursor, child_size, minimum_size) ==
  LET fill == IF p.is_vertical THEN box_child.y_fill ELSE box_child.x_fill
      a1 == IF fill
            THEN Unit * cursor
            ELSE Unit * cursor + ((child_size - minimum_size) * Unit) \div 2
      a2 == IF fill
            THEN a1 + Unit * MAX(1, child_size)
            ELSE a1 + Unit * minimum_size
  IN  IF p.is_pack_start
      THEN <<a1, a2>>
      ELSE <<a1 - Unit * child_size, a2 - Unit * child_size>>

\* a cursor that advances by the child's size alone
NextCursorNoSpacing(p, cursor, child_size) ==
  IF p.is_pack_start
  THEN cursor + child_size
  ELSE cursor - child_size

\* x += / -= child_size + priv->spacing
NextCursor(p, cursor, child_size) ==
  IF p.is_pack_start
  THEN cursor + (child_size + p.spacing)
  ELSE cursor - (child_size + p.spacing)

\* a mirroring that measures the left edge alone from the right of the box
MirrorSpanLeftEdge(box, span) ==
  LET width == span[2] - span[1]
      x1 == Unit * BoxWidth(box) - span[1]
  IN  <<x1, x1 + width>>

\* the mirroring of a horizontal span under right-to-left text
MirrorSpan(box, span) ==
  LET width == span[2] - span[1]
      x1 == Unit * BoxWidth(box) - span[1] - (span[2] - span[1])
  IN  <<x1, x1 + width>>

\* the rectangle handed to allocate_box_child()
ChildAllocation(p, box, is_rtl, span) ==
  IF p.is_vertical
  THEN [x1 |-> 0, x2 |-> Unit * MAX(1, BoxWidth(box)),
        y1 |-> span[1], y2 |-> span[2]]
  ELSE LET s == IF is_rtl THEN MirrorSpan(box, span) ELSE span
       IN  [x1 |-> s[1], x2 |-> s[2],
            y1 |-> 0, y2 |-> Unit * MAX(1, BoxHeight(box))]

\* get_box_alignment_factor(), in halves: 0.0, 0.5, 1.0
get_box_alignment_factor(alignment) ==
  CASE alignment = "CENTER" -> 1
    [] alignment = "START"  -> 0
    [] alignment = "END"    -> 2
    [] OTHER                -> 0

\* one axis of clutter_actor_allocate_align_fill(): the whole span when the
\* child fills, else the child's own minimum size placed at
\* factor * (extent - own size) from the start of the span
AlignFillSpan(fill, factor, a1, a2, own) ==
  IF fill THEN <<a1, a2>>
  ELSE LET offset == (factor * ((a2 - a1) - Unit * own)) \div 2
       IN  <<a1 + offset, a1 + offset + Unit * own>>

\* clutter_actor_allocate_align_fill(): the allocation of the child inside
\* child_box
clutter_actor_allocate_align_fill(box_child, child_box) ==
  LET h == AlignFillSpan(box_child.x_fill,
                         get_box_alignment_factor(box_child.x_align),
                         child_box.x1, child_box.x2, box_child.minimum_size)
      v == AlignFillSpan(box_child.y_fill,
                         get_box_alignment_factor(box_child.y_align),
                         child_box.y1, child_box.y2, box_child.minimum_size)
  IN  [x1 |-> h[1], x2 |-> h[2], y1 |-> v[1], y2 |-> v[2]]

\* clutter_actor_box_interpolate() at progress / ProgressOne, in steps of
\* 1 / (Unit * ProgressOne) pixel
clutter_actor_box_interpolate(initial, final, p) ==
  [x1 |-> initial.x1 * ProgressOne + (final.x1 - initial.x1) * p,
   y1 |-> initial.y1 * ProgressOne + (final.y1 - initial.y1) * p,
   x2 |-> initial.x2 * ProgressOne + (final.x2 - initial.x2) * p,
   y2 |-> initial.y2 * ProgressOne + (final.y2 - initial.y2) * p]

\* a rectangle of Unit steps in steps of 1 / (Unit * ProgressOne) pixel
Exactly(b) ==
  [x1 |-> b.x1 * ProgressOne, y1 |-> b.y1 * ProgressOne,
   x2 |-> b.x2 * ProgressOne, y2 |-> b.y2 * ProgressOne]

\* an allocate_box_child() that records the fresh rectangle in every pass
allocate_box_child_record_always(p, box_child, child_box, prog) ==
  LET final_child_box ==
        clutter_actor_allocate_align_fill(box_child, child_box)
      recorded == [box_child EXCEPT !.last_allocation = final_child_box,
                                    !.has_last_allocation = TRUE]
  IN  [final_child_box |-> final_child_box,
       allocation      |->
         IF p.use_animations /\ p.is_animating
            /\ box_child.has_last_allocation
         THEN clutter_actor_box_interpolate(box_child.last_allocation,
                                            final_child_box, prog)
         ELSE Exactly(final_child_box),
       box_child       |-> recorded]

\* allocate_box_child(): the rectangle given to clutter_actor_allocate()
\* and the box child with its record of the last allocation
allocate_box_child(p, box_child, child_box, prog) ==
  LET final_child_box ==
        clutter_actor_allocate_align_fill(box_child, child_box)
      recorded == [box_child EXCEPT !.last_allocation = final_child_box,
                                    !.has_last_allocation = TRUE]
  IN  IF p.use_animations /\ p.is_animating
      THEN IF ~box_child.has_last_allocation
           THEN [final_child_box |-> final_child_box,
                 allocation      |-> Exactly(final_child_box),
                 box_child       |-> recorded]
           ELSE [final_child_box |-> final_child_box,
                 allocation      |->
                   clutter_actor_box_interpolate(box_child.last_allocation,
                                                 final_child_box, prog),
                 box_child       |-> box_child]
      ELSE [final_child_box |-> final_child_box,
            allocation      |-> Exactly(final_child_box),
            box_child       |-> recorded]

\* the second loop: from the last declared child to the first
RECURSIVE PositionWalk(_, _, _, _, _)
PositionWalk(c, d, cursor, n_extra_widgets, walk) ==
  IF d = 0 THEN walk
  ELSE IF ~c.children[d].visible
  THEN PositionWalk(c, d - 1, cursor, n_extra_widgets, walk)
  ELSE
    LET box_child == c.children[d]
        i == WalkIndex(d)
        minimum_size == ReadMinimumSize(c.sizes, i, c.garbage)
        child_size == ChildSize(c.priv, box_child, minimum_size,
                                c.extra, n_extra_widgets)
        span == ChildSpan(c.priv, box_child, cursor, child_size, minimum_size)
        child_allocation == ChildAllocation(c.priv, c.box, c.is_rtl, span)
        given == allocate_box_child(c.priv, box_child, child_allocation,
                                    c.progress)
        visit == [child            |-> d,
                  i                |-> i,
                  minimum_size     |-> minimum_size,
                  cursor           |-> cursor,
                  child_size       |-> child_size,
                  child_allocation |-> child_allocation,
                  final_child_box  |-> given.final_child_box,
                  allocation       |-> given.allocation,
                  box_child        |-> given.box_child]
    IN  PositionWalk(c, d - 1,
          NextCursor(c.priv, cursor, child_size),
          IF TakesExtraUnit(c.priv, box_child, n_extra_widgets)
          THEN n_extra_widgets - 1 ELSE n_extra_widgets,
          Append(walk, visit))

NoPass ==
  [status |-> "none", box |-> [x1 |-> 0, y1 |-> 0, x2 |-> 0, y2 |-> 0],
   requested |-> <<>>, sizes |-> <<>>, slack |-> 0, extra_space |-> 0,
   size |-> 0, extra |-> 0, n_extra_widgets |-> 0, walk |-> <<>>]

\* the whole pass, as a function of its inputs
AllocatePass(ch, p, dir, box, garbage, prog) ==
  LET cnt == count_expand_children(ch)
      nvis_children == cnt.visible_children
      nexpand_children == cnt.expand_children
      requested == RequestedSizes(ch)
      slack == SlackSize(p, box, requested)
      dist == distribute_natural_allocation(DistributeArgument(slack),
                                            nvis_children, requested)
      size == IF p.is_homogeneous
              THEN AvailableSize(p, box, nvis_children)
              ELSE dist.extra_space
      split == IF p.is_homogeneous
               THEN HomogeneousSplit(size, nvis_children)
               ELSE ExpandSplit(size, nexpand_children)
      sizes == IF p.is_homogeneous THEN requested ELSE dist.sizes
      c == [children |-> ch, priv |-> p, box |-> box,
            is_rtl |-> IsRtl(p, dir), sizes |-> sizes,
            extra |-> split.extra, garbage |-> garbage, progress |-> prog]
  IN  IF nvis_children <= 0
      THEN [NoPass EXCEPT !.status = "empty", !.box = box]
      ELSE IF ~RequestsValid(requested)
      THEN [NoPass EXCEPT !.status = "fatal", !.box = box,
                          !.requested = requested]
      ELSE [status          |-> "done",
            box             |-> box,
            requested       |-> requested,
            sizes           |-> sizes,
            slack           |-> slack,
            extra_space     |-> IF p.is_homogeneous THEN 0
                                ELSE DistributeArgument(slack),
            size            |-> size,
            extra           |-> split.extra,
            n_extra_widgets |-> split.n_extra_widgets,
            walk            |-> PositionWalk(c, Len(ch),
                                  StartCursor(p, box),
                                  split.n_extra_widgets, <<>>)]

----------------------------------------------------------------------------
\* The preferred-size queries

\* the children in the order the query loops visit them: from the last one
\* when the text direction is right-to-left on a horizontal layout
QueryOrder(ch, is_rtl) ==
  IF is_rtl THEN [k \in 1..Len(ch) |-> ch[Len(ch) + 1 - k]] ELSE ch

\* the loop of get_preferred_width() / get_preferred_height() over the
\* list l, with the running *min_p, *natural_p and n_children; along is
\* TRUE when the queried axis is the layout's axis (sizes add up), FALSE
\* when it is the other one (the largest size wins).  A child reports the
\* same (minimum, natural) on either axis.
RECURSIVE PreferredLoop(_, _, _)
PreferredLoop(l, along, acc) ==
  IF l = <<>> THEN acc
  ELSE LET child == Head(l)
       IN  IF ~child.visible
           THEN PreferredLoop(Tail(l), along, acc)
           ELSE PreferredLoop(Tail(l), along,
                  [n_children |-> acc.n_children + 1,
                   min_p      |-> IF along
                                  THEN acc.min_p + child.minimum_size
                                  ELSE MAX(child.minimum_size, acc.min_p),
                   natural_p  |-> IF along
                                  THEN acc.natural_p + child.natural_size
                                  ELSE MAX(child.natural_size,
                                           acc.natural_p)])

\* a spacing counted once per child instead of once per gap
PreferredSpacingPerChild(p, along, acc) ==
  IF along /\ acc.n_children > 1
  THEN [acc EXCEPT !.min_p     = @ + p.spacing * acc.n_children,
                   !.natural_p = @ + p.spacing * acc.n_children]
  ELSE acc

\* the spacing added after the loop
PreferredSpacing(p, along, acc) ==
  IF along /\ acc.n_children > 1
  THEN [acc EXCEPT !.min_p     = @ + p.spacing * (acc.n_children - 1),
                   !.natural_p = @ + p.spacing * (acc.n_children - 1)]
  ELSE acc

get_preferred_width(ch, p, dir) ==
  PreferredSpacing(p, ~p.is_vertical,
    PreferredLoop(QueryOrder(ch, IsRtl(p, dir)), ~p.is_vertical,
                  [n_children |-> 0, min_p |-> 0, natural_p |-> 0]))

get_preferred_height(ch, p, dir) ==
  PreferredSpacing(p, p.is_vertical,
    PreferredLoop(QueryOrder(ch, IsRtl(p, dir)), p.is_vertical,
                  [n_children |-> 0, min_p |-> 0, natural_p |-> 0]))

NoQuery == [op |-> "none"]

\* no call of the per-child API yet
NoCall == [op |-> "none"]

----------------------------------------------------------------------------
\* ClutterScrollActor

\* Coordinates are whole numbers: a point a caller asks for is a multiple
\* of PointScale, so that the linear interpolation of a transition of
\* MaxDuration frames, retargeted up to MaxCalls times, is exact.
PointScale == MaxDuration ^ MaxCalls

Points == {<<x, y>> : x \in {0, PointScale}, y \in {0, PointScale}}

\* info->cur_state == NULL
NoEasingState == -1

\* info->cur_state: none, or the easing duration of the current state, in
\* frames
EasingStates == {NoEasingState, 0, MaxDuration}

\* priv->transition == NULL
NoTransition ==
  [exists |-> FALSE, from |-> <<0, 0>>, to |-> <<0, 0>>, duration |-> 0,
   elapsed |-> 0]

\* clutter_scroll_actor_init(); point is the point the last call of
\* clutter_scroll_actor_scroll_to_point() asked for, calls counts the calls
clutter_scroll_actor_init ==
  [scroll_to |-> <<0, 0>>, transition |-> NoTransition,
   cur_state |-> NoEasingState, point |-> <<0, 0>>, calls |-> 0]

clutter_scroll_actor_set_scroll_to_internal(self, point) ==
  [self EXCEPT !.scroll_to = point]

\* the value of the property at a frame: the linear interpolation between
\* the bounds of the transition
clutter_transition_compute_value(t, elapsed) ==
  <<t.from[1] + ((t.to[1] - t.from[1]) * elapsed) \div t.duration,
    t.from[2] + ((t.to[2] - t.from[2]) * elapsed) \div t.duration>>

\* the body of clutter_scroll_actor_scroll_to_point() below its argument
\* checks
scroll_to_point(self, point) ==
  IF self.scroll_to = point
  THEN self
  ELSE IF self.cur_state = NoEasingState \/ self.cur_state = 0
  THEN clutter_scroll_actor_set_scroll_to_internal(
         [self EXCEPT !.transition = NoTransition], point)
  ELSE [self EXCEPT !.transition =
          [exists |-> TRUE, from |-> self.scroll_to, to |-> point,
           duration |-> self.cur_state, elapsed |-> 0]]

----------------------------------------------------------------------------
\* ClutterEntry.  The text is a sequence of ASCII characters: a character is
\* a byte, and the offsets of g_string_insert() and g_string_erase(), which
\* count bytes, count characters.

Chars == {"a", "b"}

RECURSIVE TextsOfLen(_)
TextsOfLen(n) ==
  IF n = 0 THEN {<<>>}
  ELSE {Append(t, c) : t \in TextsOfLen(n - 1), c \in Chars}

Texts == UNION {TextsOfLen(n) : n \in 0..MaxText}

\* clutter_entry_init(): priv->text = NULL, priv->position = -1
clutter_entry_init == [text_is_null |-> TRUE, text |-> <<>>, position |-> -1]

\* g_string_insert(): pos < 0 appends; a pos beyond the end fails the
\* precondition and returns the string as it is
g_string_insert(string, pos, val) ==
  IF pos < 0 THEN string \o val
  ELSE IF pos > Len(string) THEN string
  ELSE SubSeq(string, 1, pos) \o val \o SubSeq(string, pos + 1, Len(string))

\* g_string_erase(): len < 0 erases to the end; a range outside of the
\* string fails the precondition and returns the string as it is
g_string_erase(string, pos, len) ==
  IF pos < 0 \/ pos > Len(string) THEN string
  ELSE IF len < 0 THEN SubSeq(string, 1, pos)
  ELSE IF pos + len > Len(string) THEN string
  ELSE SubSeq(string, 1, pos) \o SubSeq(string, pos + len + 1, Len(string))

\* the largest gint
G_MAXINT == 2147483647

\* "gint - guint" handed to a gssize parameter: a difference below zero
\* wraps modulo 2^32 to a value above G_MAXINT, beyond the end of any
\* string (with a 32 bit gssize it is negative instead; g_string_erase()
\* rejects both)
UnsignedDifference(a, num) ==
  IF a - num < 0 THEN G_MAXINT ELSE a - num

\* the body of clutter_entry_set_text(): the position is not touched
set_text(self, text_is_null, text) ==
  [self EXCEPT !.text_is_null = text_is_null, !.text = text]

\* the body of clutter_entry_set_position()
set_position(self, position) ==
  IF self.text_is_null THEN self
  ELSE LET len == Len(self.text)
       IN  IF position < 0 \/ position >= len
           THEN [self EXCEPT !.position = -1]
           ELSE [self EXCEPT !.position = position]

----------------------------------------------------------------------------
\* The state machine

\* clutter_box_layout_init(), attached to an empty container
Init ==
  /\ children = <<>>
  /\ priv = [spacing |-> 0, is_vertical |-> FALSE, is_pack_start |-> FALSE,
             is_homogeneous |-> FALSE, use_animations |-> FALSE,
             is_animating |-> FALSE, container |-> "container",
             request_mode |-> "WIDTH_FOR_HEIGHT",
             easing_mode |-> "CLUTTER_EASE_OUT_CUBIC", easing_duration |-> 500]
  /\ text_direction = "LTR"
  /\ pass = NoPass
  /\ query = NoQuery
  /\ progress = 0
  /\ call = NoCall
  /\ scroll = clutter_scroll_actor_init
  /\ entry = clutter_entry_init

\* "if (priv->use_animations) begin_animation else layout_changed": the
\* tail every setter shares; a changed layout drops the stale allocation
\* and the stale preferred size
\* (an animation that begins starts its timeline from 0)
LayoutChanged(p) ==
  /\ priv' = (IF p.use_animations THEN [p EXCEPT !.is_animating = TRUE] ELSE p)
  /\ pass' = NoPass
  /\ query' = NoQuery
  /\ progress' = (IF p.use_animations THEN 0 ELSE progress)

\* clutter_container_add_actor(): a new child with default properties
clutter_container_add_actor ==
  \E r \in Requests :
    /\ Len(children) < MaxChildren
    /\ children' = Append(children, NewBoxChild(r))
    /\ pass' = NoPass
    /\ UNCHANGED <<priv, text_direction>>
    /\ query' = NoQuery
    /\ UNCHANGED <<progress, call, scroll, entry>>

\* clutter_actor_show() / clutter_actor_hide() on a child
clutter_actor_set_visible ==
  \E d \in 1..Len(children) :
    /\ children' = [children EXCEPT ![d].visible = ~@]
    /\ pass' = NoPass
    /\ UNCHANGED <<priv, text_direction>>
    /\ query' = NoQuery
    /\ UNCHANGED <<progress, call, scroll, entry>>

clutter_actor_set_text_direction ==
  \E dir \in {"LTR", "RTL"} :
    /\ dir # text_direction
    /\ text_direction' = dir
    /\ pass' = NoPass
    /\ UNCHANGED <<children, priv>>
    /\ query' = NoQuery
    /\ UNCHANGED <<progress, call, scroll, entry>>

box_child_set_expand ==
  \E d \in 1..Len(children), expand \in BOOLEAN :
    /\ children[d].expand # expand
    /\ children' = [children EXCEPT ![d].expand = expand]
    /\ LayoutChanged(priv)
    /\ UNCHANGED <<text_direction, call, scroll, entry>>

box_child_set_fill ==
  \E d \in 1..Len(children), fill \in FillValues :
    LET x_fill == fill[1]
        y_fill == fill[2]
    IN
    /\ children[d].x_fill # x_fill \/ children[d].y_fill # y_fill
    /\ children' = [children EXCEPT ![d].x_fill = x_fill, ![d].y_fill = y_fill]
    /\ LayoutChanged(priv)
    /\ UNCHANGED <<text_direction, call, scroll, entry>>

clutter_box_layout_set_spacing ==
  \E spacing \in SpacingValues :
    /\ priv.spacing # spacing
    /\ LayoutChanged([priv EXCEPT !.spacing = spacing])
    /\ UNCHANGED <<children, text_direction, call, scroll, entry>>

clutter_box_layout_set_vertical ==
  \E vertical \in BOOLEAN :
    /\ priv.is_vertical # vertical
    /\ LayoutChanged([priv EXCEPT !.is_vertical = vertical])
    /\ UNCHANGED <<children, text_direction, call, scroll, entry>>

clutter_box_layout_set_homogeneous ==
  \E homogeneous \in BOOLEAN :
    /\ priv.is_homogeneous # homogeneous
    /\ LayoutChanged([priv EXCEPT !.is_homogeneous = homogeneous])
    /\ UNCHANGED <<children, text_direction, call, scroll, entry>>

clutter_box_layout_set_pack_start ==
  \E pack_start \in BOOLEAN :
    /\ priv.is_pack_start # pack_start
    /\ LayoutChanged([priv EXCEPT !.is_pack_start = pack_start])
    /\ UNCHANGED <<children, text_direction, call, scroll, entry>>

\* the box children after a pass: allocate_box_child() has updated the ones
\* the walk visited
StoreAllocations(ch, walk) ==
  [d \in 1..Len(ch) |->
     IF \E k \in 1..Len(walk) : walk[k].child = d
     THEN walk[CHOOSE k \in 1..Len(walk) : walk[k].child = d].box_child
     ELSE ch[d]]

\* the container allocates its children when a relayout is pending; the
\* box has its origin at (0, 0)
clutter_box_layout_allocate ==
  \E extent \in Extents, cross \in {CrossExtent} :
    \E garbage \in [OutOfBounds(children) -> Garbage] :
      LET box == IF priv.is_vertical
                 THEN [x1 |-> 0, y1 |-> 0, x2 |-> cross, y2 |-> extent]
                 ELSE [x1 |-> 0, y1 |-> 0, x2 |-> extent, y2 |-> cross]
      IN  /\ pass.status = "none"
          /\ pass' = AllocatePass(children, priv, text_direction, box,
                                  garbage, progress)
          /\ children' = StoreAllocations(children, pass'.walk)
          /\ UNCHANGED <<priv, text_direction, query, progress, call, scroll, entry>>

\* clutter_box_layout_get_preferred_width(): the container asks the layout
clutter_box_layout_get_preferred_width ==
  /\ query.op = "none"
  /\ query' = [op        |-> "get_preferred_width",
               min_p     |-> get_preferred_width(children, priv,
                                                 text_direction).min_p,
               natural_p |-> get_preferred_width(children, priv,
                                                 text_direction).natural_p]
  /\ UNCHANGED <<children, priv, text_direction, pass, progress, call, scroll, entry>>

clutter_box_layout_get_preferred_height ==
  /\ query.op = "none"
  /\ query' = [op        |-> "get_preferred_height",
               min_p     |-> get_preferred_height(children, priv,
                                                  text_direction).min_p,
               natural_p |-> get_preferred_height(children, priv,
                                                  text_direction).natural_p]
  /\ UNCHANGED <<children, priv, text_direction, pass, progress, call, scroll, entry>>

clutter_box_layout_set_use_animations ==
  \E animate \in BOOLEAN :
    /\ priv.use_animations # animate
    /\ priv' = [priv EXCEPT !.use_animations = animate]
    /\ UNCHANGED <<children, text_direction, pass, query, progress, call, scroll, entry>>

\* the timeline of the running animation completes
clutter_box_layout_end_animation ==
  /\ priv.is_animating
  /\ priv' = [priv EXCEPT !.is_animating = FALSE]
  /\ UNCHANGED <<children, text_direction, pass, query, progress, call, scroll, entry>>

\* a frame of the running animation: the progress moves on and the layout
\* manager asks for a relayout
clutter_timeline_new_frame ==
  \E p \in ProgressValues :
    /\ priv.is_animating
    /\ p > progress
    /\ progress' = p
    /\ pass' = NoPass
    /\ query' = NoQuery
    /\ UNCHANGED <<children, priv, text_direction, call, scroll, entry>>

\* a child reports another preferred size and asks for a relayout
clutter_actor_queue_relayout ==
  \E d \in 1..Len(children), r \in AnimRequests :
    /\ <<children[d].minimum_size, children[d].natural_size>> # r
    /\ children' = [children EXCEPT ![d].minimum_size = r[1],
                                    ![d].natural_size = r[2]]
    /\ pass' = NoPass
    /\ query' = NoQuery
    /\ UNCHANGED <<priv, text_direction, progress, call, scroll, entry>>

\* "we need to change the :request-mode of the container to match the
\* orientation"
RequestModeOf(is_vertical) ==
  IF is_vertical THEN "HEIGHT_FOR_WIDTH" ELSE "WIDTH_FOR_HEIGHT"

\* a request mode that is the same for both orientations
RequestModeFixed(is_vertical) == "WIDTH_FOR_HEIGHT"

\* clutter_box_layout_set_container(): the layout manager is attached to a
\* container, or detached from it (NULL)
clutter_box_layout_set_container ==
  \E container \in Containers :
    /\ priv' = [priv EXCEPT !.container = container,
                            !.request_mode =
                              IF container # "NULL"
                              THEN RequestModeOf(priv.is_vertical)
                              ELSE @]
    /\ UNCHANGED <<children, text_direction, pass, query, progress, call, scroll, entry>>

\* what a call of the per-child API leaves behind: whether it emitted a
\* g_warning() and what it handed back to the caller
ApiReturn(op, warning, value) ==
  call' = [op |-> op, warning |-> warning, value |-> value]

\* a layout manager that takes itself for attached whatever it is told
NoContainerNever(p) == FALSE

\* "priv->container == NULL"
NoContainer(p) == p.container = "NULL"

\* "if (priv->container == NULL) { g_warning (...); return; }"
MissingContainer(op, value) ==
  /\ ApiReturn(op, TRUE, value)
  /\ UNCHANGED <<children, priv, text_direction, pass, query, progress,
                 scroll, entry>>

\* box_child_set_align(), box_child_set_fill(), box_child_set_expand(): a
\* value that differs is stored and the layout changes, an equal value
\* does nothing
BoxChildSet(ch) ==
  IF ch # children
  THEN children' = ch /\ LayoutChanged(priv)
  ELSE UNCHANGED <<children, priv, pass, query, progress>>

\* clutter_box_layout_pack(): add the actor to the container and set its
\* layout properties
clutter_box_layout_pack ==
  \E expand \in BOOLEAN, fill \in FillValues, align \in AlignValues :
    IF NoContainer(priv)
    THEN MissingContainer("pack", "none")
    ELSE LET added == NewBoxChild(<<MaxMin, MaxMin>>)
             meta  == [added EXCEPT !.x_align = align[1],
                                    !.y_align = align[2],
                                    !.x_fill = fill[1], !.y_fill = fill[2],
                                    !.expand = expand]
         IN  /\ Len(children) < MaxPacked
             /\ children' = Append(children, meta)
             /\ IF meta # added
                THEN LayoutChanged(priv)
                ELSE /\ pass' = NoPass
                     /\ query' = NoQuery
                     /\ UNCHANGED <<priv, progress>>
             /\ ApiReturn("pack", FALSE, "none")
             /\ UNCHANGED <<text_direction, scroll, entry>>

clutter_box_layout_set_alignment ==
  \E actor \in 1..MaxPacked, align \in AlignValues :
    IF NoContainer(priv)
    THEN MissingContainer("set_alignment", "none")
    ELSE /\ actor \in 1..Len(children)
         /\ BoxChildSet([children EXCEPT ![actor].x_align = align[1],
                                         ![actor].y_align = align[2]])
         /\ ApiReturn("set_alignment", FALSE, "none")
         /\ UNCHANGED <<text_direction, scroll, entry>>

\* the out-parameters are written only when the child is found
clutter_box_layout_get_alignment ==
  \E actor \in 1..MaxPacked :
    IF NoContainer(priv)
    THEN MissingContainer("get_alignment", "none")
    ELSE /\ actor \in 1..Len(children)
         /\ ApiReturn("get_alignment", FALSE,
                      <<children[actor].x_align, children[actor].y_align>>)
         /\ UNCHANGED <<children, priv, text_direction, pass, query,
                        progress, scroll, entry>>

clutter_box_layout_set_fill ==
  \E actor \in 1..MaxPacked, fill \in FillValues :
    IF NoContainer(priv)
    THEN MissingContainer("set_fill", "none")
    ELSE /\ actor \in 1..Len(children)
         /\ BoxChildSet([children EXCEPT ![actor].x_fill = fill[1],
                                         ![actor].y_fill = fill[2]])
         /\ ApiReturn("set_fill", FALSE, "none")
         /\ UNCHANGED <<text_direction, scroll, entry>>

clutter_box_layout_get_fill ==
  \E actor \in 1..MaxPacked :
    IF NoContainer(priv)
    THEN MissingContainer("get_fill", "none")
    ELSE /\ actor \in 1..Len(children)
         /\ ApiReturn("get_fill", FALSE,
                      <<children[actor].x_fill, children[actor].y_fill>>)
         /\ UNCHANGED <<children, priv, text_direction, pass, query,
                        progress, scroll, entry>>

clutter_box_layout_set_expand ==
  \E actor \in 1..MaxPacked, expand \in BOOLEAN :
    IF NoContainer(priv)
    THEN MissingContainer("set_expand", "none")
    ELSE /\ actor \in 1..Len(children)
         /\ BoxChildSet([children EXCEPT ![actor].expand = expand])
         /\ ApiReturn("set_expand", FALSE, "none")
         /\ UNCHANGED <<text_direction, scroll, entry>>

clutter_box_layout_get_expand ==
  \E actor \in 1..MaxPacked :
    IF NoContainer(priv)
    THEN MissingContainer("get_expand", FALSE)
    ELSE /\ actor \in 1..Len(children)
         /\ ApiReturn("get_expand", FALSE, children[actor].expand)
         /\ UNCHANGED <<children, priv, text_direction, pass, query,
                        progress, scroll, entry>>

\* no allocation pass has run since the layout last changed
RelayoutPending == pass.status = "none"

\* The sizes of a pass: the operations that decide how much each child gets
\* (a container is set up and then allocated: the set-up steps are taken
\* while the first allocation is pending)
Next ==
  \/ RelayoutPending /\ clutter_container_add_actor
  \/ RelayoutPending /\ clutter_actor_set_visible
  \/ RelayoutPending /\ box_child_set_expand
  \/ RelayoutPending /\ clutter_box_layout_set_spacing
  \/ RelayoutPending /\ clutter_box_layout_set_homogeneous
  \/ clutter_box_layout_allocate

Spec == Init /\ [][Next]_vars

\* The positions of a pass: a container filled beforehand, and the
\* operations that decide where each child goes
InitWalk ==
  /\ children \in UNION {[1..n -> {[NewBoxChild(r) EXCEPT !.visible = v] :
                                      r \in WalkRequests, v \in BOOLEAN}] :
                          n \in 1..MaxChildren}
  /\ priv = [spacing |-> 0, is_vertical |-> FALSE, is_pack_start |-> FALSE,
             is_homogeneous |-> FALSE, use_animations |-> FALSE,
             is_animating |-> FALSE, container |-> "container",
             request_mode |-> "WIDTH_FOR_HEIGHT",
             easing_mode |-> "CLUTTER_EASE_OUT_CUBIC", easing_duration |-> 500]
  /\ text_direction = "LTR"
  /\ pass = NoPass
  /\ query = NoQuery
  /\ progress = 0
  /\ call = NoCall
  /\ scroll = clutter_scroll_actor_init
  /\ entry = clutter_entry_init

NextWalk ==
  \/ RelayoutPending /\ clutter_actor_set_text_direction
  \/ RelayoutPending /\ box_child_set_fill
  \/ RelayoutPending /\ clutter_box_layout_set_spacing
  \/ RelayoutPending /\ clutter_box_layout_set_homogeneous
  \/ RelayoutPending /\ clutter_box_layout_set_vertical
  \/ RelayoutPending /\ clutter_box_layout_set_pack_start
  \/ clutter_box_layout_allocate

SpecWalk == InitWalk /\ [][NextWalk]_vars

\* The preferred size: a container filled beforehand, the operations that
\* change what the queries read, and the two queries
InitMeasure ==
  /\ children \in UNION {[1..n -> {[NewBoxChild(r) EXCEPT !.visible = v] :
                                      r \in Requests, v \in BOOLEAN}] :
                          n \in 0..MaxChildren}
  /\ priv = [spacing |-> 0, is_vertical |-> FALSE, is_pack_start |-> FALSE,
             is_homogeneous |-> FALSE, use_animations |-> FALSE,
             is_animating |-> FALSE, container |-> "container",
             request_mode |-> "WIDTH_FOR_HEIGHT",
             easing_mode |-> "CLUTTER_EASE_OUT_CUBIC", easing_duration |-> 500]
  /\ text_direction = "LTR"
  /\ pass = NoPass
  /\ query = NoQuery
  /\ progress = 0
  /\ call = NoCall
  /\ scroll = clutter_scroll_actor_init
  /\ entry = clutter_entry_init

NextMeasure ==
  \/ clutter_actor_set_text_direction
  \/ clutter_box_layout_set_spacing
  \/ clutter_box_layout_set_vertical
  \/ clutter_box_layout_get_preferred_width
  \/ clutter_box_layout_get_preferred_height

SpecMeasure == InitMeasure /\ [][NextMeasure]_vars

\* Animated transitions: a container of a fixed size, filled beforehand,
\* that is allocated again and again while the spacing and the children's
\* requests change, with and without animations.  g_error() ends the
\* process: nothing happens after a fatal pass.
InitAnim ==
  /\ children \in UNION {[1..n -> {NewBoxChild(<<MaxMin, MaxMin>>)}] :
                          n \in 1..MaxChildren}
  /\ priv = [spacing |-> 0, is_vertical |-> FALSE, is_pack_start |-> FALSE,
             is_homogeneous |-> FALSE, use_animations |-> FALSE,
             is_animating |-> FALSE, container |-> "container",
             request_mode |-> "WIDTH_FOR_HEIGHT",
             easing_mode |-> "CLUTTER_EASE_OUT_CUBIC", easing_duration |-> 500]
  /\ text_direction = "LTR"
  /\ pass = NoPass
  /\ query = NoQuery
  /\ progress = 0
  /\ call = NoCall
  /\ scroll = clutter_scroll_actor_init
  /\ entry = clutter_entry_init

Alive == pass.status # "fatal"

NextAnim ==
  \/ Alive /\ clutter_box_layout_set_use_animations
  \/ Alive /\ clutter_box_layout_set_spacing
  \/ Alive /\ clutter_timeline_new_frame
  \/ Alive /\ clutter_box_layout_end_animation
  \/ Alive /\ clutter_actor_queue_relayout
  \/ /\ clutter_box_layout_allocate
     /\ PrimaryExtent(priv, pass'.box) = MaxExtent

SpecAnim == InitAnim /\ [][NextAnim]_vars

\* The per-child API: a layout manager that is created, attached to a
\* container and detached from it.  Children are packed and their layout
\* properties are set while the first allocation is pending or while no
\* container is attached; the properties are read back at any time; the
\* container (of a fixed size) allocates its children.
InitContainer ==
  /\ children = <<>>
  /\ priv = [spacing |-> 0, is_vertical |-> FALSE, is_pack_start |-> FALSE,
             is_homogeneous |-> FALSE, use_animations |-> FALSE,
             is_animating |-> FALSE, container |-> "NULL",
             request_mode |-> "HEIGHT_FOR_WIDTH",
             easing_mode |-> "CLUTTER_EASE_OUT_CUBIC", easing_duration |-> 500]
  /\ text_direction = "LTR"
  /\ pass = NoPass
  /\ query = NoQuery
  /\ progress = 0
  /\ call = NoCall
  /\ scroll = clutter_scroll_actor_init
  /\ entry = clutter_entry_init

Attached == priv.container # "NULL"

SetUp == RelayoutPending \/ ~Attached

NextContainer ==
  \/ clutter_box_layout_set_container
  \/ SetUp /\ clutter_box_layout_set_use_animations
  \/ SetUp /\ clutter_box_layout_pack
  \/ SetUp /\ clutter_box_layout_set_alignment
  \/ SetUp /\ clutter_box_layout_set_fill
  \/ SetUp /\ clutter_box_layout_set_expand
  \/ clutter_box_layout_get_alignment
  \/ clutter_box_layout_get_fill
  \/ clutter_box_layout_get_expand
  \/ /\ Attached
     /\ clutter_box_layout_allocate
     /\ PrimaryExtent(priv, pass'.box) = MaxExtent

SpecContainer == InitContainer /\ [][NextContainer]_vars

\* The properties: the application sets the properties of the layout and
\* of a child of the container, attaches and detaches the container
EasingModes == {"CLUTTER_EASE_OUT_CUBIC", "CLUTTER_LINEAR"}

EasingDurations == {500, 250}

AlignmentValues == {"START", "CENTER", "END"}

\* the properties of the layout with the field that holds each
LayoutProperties ==
  {"vertical", "homogeneous", "spacing", "pack-start", "use-animations",
   "easing-mode", "easing-duration"}

LayoutField(prop) ==
  CASE prop = "vertical"        -> "is_vertical"
    [] prop = "homogeneous"     -> "is_homogeneous"
    [] prop = "spacing"         -> "spacing"
    [] prop = "pack-start"      -> "is_pack_start"
    [] prop = "use-animations"  -> "use_animations"
    [] prop = "easing-mode"     -> "easing_mode"
    [] prop = "easing-duration" -> "easing_duration"

LayoutValues(prop) ==
  CASE prop = "spacing"         -> 0..MaxSpacing
    [] prop = "easing-mode"     -> EasingModes
    [] prop = "easing-duration" -> EasingDurations
    [] OTHER                    -> BOOLEAN

\* every property of the layout, taken for one whose setter ends with
\* begin_animation() or layout_changed()
RelayoutPropertiesAll == LayoutProperties

\* the properties whose setter ends with begin_animation() or
\* layout_changed(); the setters of the other three only notify
RelayoutProperties == {"vertical", "homogeneous", "spacing", "pack-start"}

\* the properties of a child with the field that holds each
ChildProperties == {"x-align", "y-align", "x-fill", "y-fill", "expand"}

ChildField(prop) ==
  CASE prop = "x-align" -> "x_align"
    [] prop = "y-align" -> "y_align"
    [] prop = "x-fill"  -> "x_fill"
    [] prop = "y-fill"  -> "y_fill"
    [] prop = "expand"  -> "expand"

ChildValues(prop) ==
  IF prop \in {"x-align", "y-align"} THEN AlignmentValues ELSE BOOLEAN

\* what a setter leaves behind: the property and the value it was called
\* with, how often it called begin_animation() and layout_changed(), and
\* the properties it notified
SetterReturn(prop, value, changed, relayout) ==
  call' = [op              |-> prop,
           value           |-> value,
           calls           |-> call.calls + 1,
           begin_animation |-> IF relayout /\ priv.use_animations
                               THEN 1 ELSE 0,
           layout_changed  |-> IF relayout /\ ~priv.use_animations
                               THEN 1 ELSE 0,
           notify          |-> IF changed THEN <<prop>> ELSE <<>>]

\* clutter_box_layout_set_property(): the setter of the property is called
\* with the value
clutter_box_layout_set_property ==
  \E prop \in LayoutProperties :
    \E value \in LayoutValues(prop) :
      LET field    == LayoutField(prop)
          changed  == priv[field] # value
          relayout == changed /\ prop \in RelayoutProperties
      IN  /\ call.calls < MaxCalls
          /\ IF relayout
             THEN LayoutChanged([priv EXCEPT ![field] = value])
             ELSE /\ priv' = (IF changed
                              THEN [priv EXCEPT ![field] = value]
                              ELSE priv)
                  /\ UNCHANGED <<pass, query, progress>>
          /\ SetterReturn(prop, value, changed, relayout)
          /\ UNCHANGED <<children, text_direction, scroll, entry>>

\* clutter_box_child_set_property(): box_child_set_align(),
\* box_child_set_fill() or box_child_set_expand() is called with the value
\* and, for the other axis, with the value the child has
clutter_box_child_set_property ==
  \E d \in 1..Len(children), prop \in ChildProperties :
    \E value \in ChildValues(prop) :
      LET field   == ChildField(prop)
          changed == children[d][field] # value
      IN  /\ call.calls < MaxCalls
          /\ IF changed
             THEN /\ children' = [children EXCEPT ![d][field] = value]
                  /\ LayoutChanged(priv)
             ELSE UNCHANGED <<children, priv, pass, query, progress>>
          /\ SetterReturn(prop, value, changed, changed)
          /\ UNCHANGED <<text_direction, scroll, entry>>

InitProperty ==
  /\ children = <<NewBoxChild(<<MaxMin, MaxMin>>)>>
  /\ priv = [spacing |-> 0, is_vertical |-> FALSE, is_pack_start |-> FALSE,
             is_homogeneous |-> FALSE, use_animations |-> FALSE,
             is_animating |-> FALSE, container |-> "container",
             request_mode |-> "WIDTH_FOR_HEIGHT",
             easing_mode |-> "CLUTTER_EASE_OUT_CUBIC", easing_duration |-> 500]
  /\ text_direction = "LTR"
  /\ pass = NoPass
  /\ query = NoQuery
  /\ progress = 0
  /\ call = [op |-> "none", value |-> FALSE, calls |-> 0,
             begin_animation |-> 0, layout_changed |-> 0, notify |-> <<>>]
  /\ scroll = clutter_scroll_actor_init
  /\ entry = clutter_entry_init

NextProperty ==
  \/ clutter_box_layout_set_property
  \/ clutter_box_child_set_property
  \/ clutter_box_layout_set_container
  \/ clutter_box_layout_end_animation

SpecProperty == InitProperty /\ [][NextProperty]_vars

\* The scroll actor: the application changes the easing state, asks for
\* points, and the frames of the transition arrive
layout == <<children, priv, text_direction, pass, query, progress, call>>

\* clutter_actor_save_easing_state(), clutter_actor_set_easing_duration(),
\* clutter_actor_restore_easing_state(): the current easing state changes
clutter_actor_set_easing_state ==
  \E state \in EasingStates :
    /\ scroll.cur_state # state
    /\ scroll' = [scroll EXCEPT !.cur_state = state]
    /\ UNCHANGED <<layout, entry>>

clutter_scroll_actor_scroll_to_point ==
  \E point \in Points :
    /\ scroll.calls < MaxCalls
    /\ scroll' = [scroll_to_point(scroll, point) EXCEPT
                    !.point = point, !.calls = @ + 1]
    /\ UNCHANGED <<layout, entry>>

\* on_transition_completed()
on_transition_completed(self) == [self EXCEPT !.transition = NoTransition]

\* a frame of the running transition: the interpolated value is set through
\* clutter_scroll_actor_set_final_state(); the last frame completes the
\* transition
clutter_timeline_do_frame ==
  /\ scroll.transition.exists
  /\ LET elapsed == scroll.transition.elapsed + 1
         value   == clutter_transition_compute_value(scroll.transition,
                                                     elapsed)
         set     == clutter_scroll_actor_set_scroll_to_internal(
                      [scroll EXCEPT !.transition.elapsed = elapsed], value)
     IN  scroll' = IF elapsed = scroll.transition.duration
                   THEN on_transition_completed(set)
                   ELSE set
  /\ UNCHANGED <<layout, entry>>

InitScroll ==
  /\ children = <<>>
  /\ priv = [spacing |-> 0, is_vertical |-> FALSE, is_pack_start |-> FALSE,
             is_homogeneous |-> FALSE, use_animations |-> FALSE,
             is_animating |-> FALSE, container |-> "NULL",
             request_mode |-> "HEIGHT_FOR_WIDTH",
             easing_mode |-> "CLUTTER_EASE_OUT_CUBIC", easing_duration |-> 500]
  /\ text_direction = "LTR"
  /\ pass = NoPass
  /\ query = NoQuery
  /\ progress = 0
  /\ call = NoCall
  /\ scroll = clutter_scroll_actor_init
  /\ entry = clutter_entry_init

NextScroll ==
  \/ clutter_actor_set_easing_state
  \/ clutter_scroll_actor_scroll_to_point
  \/ clutter_timeline_do_frame

\* a running timeline keeps delivering its frames
SpecScroll ==
  InitScroll /\ [][NextScroll]_vars /\ WF_vars(clutter_timeline_do_frame)

\* The entry: the application edits the text and moves the cursor
clutter_entry_set_text ==
  \E text_is_null \in BOOLEAN, text \in Texts :
    /\ text_is_null => text = <<>>
    /\ entry' = set_text(entry, text_is_null, text)
    /\ UNCHANGED <<layout, scroll>>

clutter_entry_set_position ==
  \E position \in -1..(MaxText + 1) :
    /\ entry' = set_position(entry, position)
    /\ UNCHANGED <<layout, scroll>>

\* clutter_entry_add(): insert a character at the cursor
clutter_entry_add ==
  \E wc \in Chars :
    LET new    == g_string_insert(entry.text, entry.position, <<wc>>)
        stored == set_text(entry, FALSE, new)
    IN  /\ Len(entry.text) < MaxText
        /\ entry' = IF stored.position > 0
                    THEN set_position(stored, stored.position + 1)
                    ELSE stored
        /\ UNCHANGED <<layout, scroll>>

\* clutter_entry_remove(): erase num characters before the cursor
clutter_entry_remove ==
  \E num \in 0..(MaxText + 1) :
    /\ entry' =
         IF entry.text_is_null THEN entry
         ELSE LET len    == Len(entry.text)
                  new    == IF entry.position = -1
                            THEN g_string_erase(entry.text,
                                   UnsignedDifference(len, num), num)
                            ELSE g_string_erase(entry.text,
                                   UnsignedDifference(entry.position, num),
                                   num)
                  stored == set_text(entry, FALSE, new)
              IN  IF stored.position > 0
                  THEN set_position(stored, stored.position - num)
                  ELSE stored
    /\ UNCHANGED <<layout, scroll>>

clutter_entry_insert_text ==
  \E text \in TextsOfLen(1), position \in -1..(MaxText + 1) :
    /\ Len(entry.text) < MaxText
    /\ entry' = set_text(entry, FALSE,
                         g_string_insert(entry.text, position, text))
    /\ UNCHANGED <<layout, scroll>>

clutter_entry_delete_text ==
  \E start_pos \in -1..MaxText, end_pos \in -1..(MaxText + 1) :
    /\ entry' =
         IF entry.text_is_null THEN entry
         ELSE set_text(entry, FALSE,
                       g_string_erase(entry.text, start_pos,
                                      end_pos - start_pos))
    /\ UNCHANGED <<layout, scroll>>

InitEntry ==
  /\ children = <<>>
  /\ priv = [spacing |-> 0, is_vertical |-> FALSE, is_pack_start |-> FALSE,
             is_homogeneous |-> FALSE, use_animations |-> FALSE,
             is_animating |-> FALSE, container |-> "NULL",
             request_mode |-> "HEIGHT_FOR_WIDTH",
             easing_mode |-> "CLUTTER_EASE_OUT_CUBIC", easing_duration |-> 500]
  /\ text_direction = "LTR"
  /\ pass = NoPass
  /\ query = NoQuery
  /\ progress = 0
  /\ call = NoCall
  /\ scroll = clutter_scroll_actor_init
  /\ entry = clutter_entry_init

NextEntry ==
  \/ clutter_entry_set_text
  \/ clutter_entry_set_position
  \/ clutter_entry_add
  \/ clutter_entry_remove
  \/ clutter_entry_insert_text
  \/ clutter_entry_delete_text

SpecEntry == InitEntry /\ [][NextEntry]_vars

\* The distribution of the slack on its own: distribute_natural_allocation()
\* is called on an array of requests and returns
InitDistribute ==
  /\ children = <<>>
  /\ priv = [spacing |-> 0, is_vertical |-> FALSE, is_pack_start |-> FALSE,
             is_homogeneous |-> FALSE, use_animations |-> FALSE,
             is_animating |-> FALSE, container |-> "container",
             request_mode |-> "WIDTH_FOR_HEIGHT",
             easing_mode |-> "CLUTTER_EASE_OUT_CUBIC", easing_duration |-> 500]
  /\ text_direction = "LTR"
  /\ pass \in {p \in [status : {"distribute"}, extra_space : ExtraSpaces,
                       requested : RequestArrays, checks : GLibChecks] :
                  p.extra_space >= 0 => p.checks = "critical"}
  /\ query = NoQuery
  /\ progress = 0
  /\ call = NoCall
  /\ scroll = clutter_scroll_actor_init
  /\ entry = clutter_entry_init

distribute_natural_allocation_returns ==
  /\ pass.status = "distribute"
  /\ LET failed == ~(pass.extra_space >= 0) /\ pass.checks # "disabled"
         returned == IF pass.checks = "disabled"
                     THEN distribute_natural_allocation_unchecked(
                            pass.extra_space, Len(pass.requested),
                            pass.requested)
                     ELSE distribute_natural_allocation(pass.extra_space,
                            Len(pass.requested), pass.requested)
     IN  pass' = IF failed /\ pass.checks = "fatal"
                 THEN [status      |-> "aborted",
                       extra_space |-> pass.extra_space,
                       requested   |-> pass.requested,
                       checks      |-> pass.checks]
                 ELSE [status      |-> "distributed",
                       extra_space |-> pass.extra_space,
                       requested   |-> pass.requested,
                       checks      |-> pass.checks,
                       critical    |-> failed,
                       sizes       |-> returned.sizes,
                       leftover    |-> returned.extra_space,
                       served      |-> returned.served]
  /\ UNCHANGED <<children, priv, text_direction, query, progress, call,
                 scroll, entry>>

NextDistribute == distribute_natural_allocation_returns

SpecDistribute == InitDistribute /\ [][NextDistribute]_vars

----------------------------------------------------------------------------
\* What a finished pass shows.  A setter or a change of the child list drops
\* the recorded pass, so while pass.status = "done" the variables children,
\* priv and text_direction still hold the inputs of that pass (of the box
\* children, all but the record of the last allocation).

Done == pass.status = "done"

NVisible == Len(pass.requested)

Extent == PrimaryExtent(priv, pass.box)

SpacingTotal == (NVisible - 1) * priv.spacing

SumMinimum ==
  SumSeq([k \in 1..NVisible |-> pass.requested[k].minimum_size])

SumNatural ==
  SumSeq([k \in 1..NVisible |-> pass.requested[k].natural_size])

SumAssigned ==
  SumSeq([k \in 1..Len(pass.walk) |-> pass.walk[k].child_size])

NExpand == count_expand_children(children).expand_children

VisibleSet == {d \in 1..Len(children) : children[d].visible}

\* the visit of the child declared at position d
VisitOf(d) ==
  pass.walk[CHOOSE k \in 1..Len(pass.walk) : pass.walk[k].child = d]

\* the size of child d's own request after the distribution
OwnSize(d) ==
  pass.sizes[CHOOSE k \in 1..Len(pass.sizes) : pass.sizes[k].actor = d]
    .minimum_size

\* a hidden child is declared before a visible one: the walk then indexes
\* sizes[] by the wrong position
HiddenBeforeVisible ==
  \E h \in 1..Len(children), d \in 1..Len(children) :
    h < d /\ ~children[h].visible /\ children[d].visible

\* the pass on the same inputs with the primary extent one unit larger
WiderBox ==
  IF priv.is_vertical
  THEN [pass.box EXCEPT !.y2 = @ + 1]
  ELSE [pass.box EXCEPT !.x2 = @ + 1]

\* the three children of the worked examples: minimum = natural = 10, 20, 30
ExampleChildren == [d \in 1..3 |-> NewBoxChild(<<10 * d, 10 * d>>)]

ExamplePass(ch, spacing, homogeneous, pack_start) ==
  AllocatePass(ch,
    [spacing |-> spacing, is_vertical |-> FALSE,
     is_pack_start |-> pack_start, is_homogeneous |-> homogeneous,
     use_animations |-> FALSE, is_animating |-> FALSE,
     container |-> "container",
     request_mode |-> "WIDTH_FOR_HEIGHT",
     easing_mode |-> "CLUTTER_EASE_OUT_CUBIC", easing_duration |-> 500],
    "LTR", [x1 |-> 0, y1 |-> 0, x2 |-> 100, y2 |-> 10], <<>>, 0)

WalkSizes(w) == [k \in 1..Len(w) |-> w[k].child_size]

----------------------------------------------------------------------------
\* The sizes of a pass (specification Spec)

\* C1: in a non-homogeneous pass with extent >= sum of the minimum sizes +
\* spacing * (n - 1), the assigned sizes and the spacing add up to the
\* extent.  Stated for the passes whose leftover has a taker (a visible
\* expand child, or an extent that does not exceed the natural sizes); with
\* no taker the leftover stays unallocated by design.
C1_SizesFillExtent ==
  (/\ Done
   /\ ~priv.is_homogeneous
   /\ Extent >= SumMinimum + SpacingTotal
   /\ (NExpand > 0 \/ Extent <= SumNatural + SpacingTotal))
    => SumAssigned + SpacingTotal = Extent

\* C1 where every size is read from the child's own request
C1_OwnRequests == HiddenBeforeVisible \/ C1_SizesFillExtent

\* C2: one more unit of extent never takes anything away from a child, and
\* one more unit of extra space never takes anything away from a request.
C2_Monotonic ==
  Done =>
    /\ \A g \in [OutOfBounds(children) -> Garbage] :
         LET wider == AllocatePass(children, priv, text_direction,
                                   WiderBox, g, progress)
         IN  \A k \in 1..Len(pass.walk) :
               wider.walk[k].child_size >= pass.walk[k].child_size
    /\ LET now  == distribute_natural_allocation(
                     pass.extra_space, NVisible, pass.requested)
           more == distribute_natural_allocation(
                     pass.extra_space + 1, NVisible, pass.requested)
       IN  \A k \in 1..NVisible :
             more.sizes[k].minimum_size >= now.sizes[k].minimum_size

C2_OwnRequests == HiddenBeforeVisible \/ C2_Monotonic

\* C3: in a non-homogeneous pass with extent >= sum of the natural sizes +
\* spacing * (n - 1), a visible child that does not expand gets exactly its
\* natural size and the leftover goes to the expand children only.
C3_NaturalSizes ==
  (/\ Done
   /\ ~priv.is_homogeneous
   /\ Extent >= SumNatural + SpacingTotal)
    => /\ \A d \in VisibleSet :
            IF children[d].expand
            THEN VisitOf(d).child_size >= children[d].natural_size
            ELSE VisitOf(d).child_size = children[d].natural_size
       /\ NExpand > 0 => SumAssigned + SpacingTotal = Extent
       /\ NExpand = 0 => SumAssigned = SumNatural

C3_OwnRequests == HiddenBeforeVisible \/ C3_NaturalSizes

\* the k-th visit is the r-th visit of an expand child
ExpandRank(k) ==
  Cardinality({j \in 1..k : children[pass.walk[j].child].expand})

\* C6: with leftover L and e > 0 visible expand children, an expand child
\* gets its size after the distribution plus L div e, the first L mod e
\* expand children visited get one unit more, the others get nothing more.
C6_ExpandShares ==
  (Done /\ ~priv.is_homogeneous /\ NExpand > 0) =>
    /\ \A k \in 1..Len(pass.walk) :
         LET d == pass.walk[k].child
         IN  pass.walk[k].child_size =
               IF children[d].expand
               THEN OwnSize(d) + (pass.size \div NExpand)
                    + (IF ExpandRank(k) <= pass.size % NExpand THEN 1 ELSE 0)
               ELSE OwnSize(d)
    /\ WalkSizes(ExamplePass([ExampleChildren EXCEPT ![2].expand = TRUE],
                             5, FALSE, TRUE).walk) = <<30, 50, 10>>

C6_OwnRequests == HiddenBeforeVisible \/ C6_ExpandShares

\* C10: in a non-homogeneous pass with extent < sum of the minimum sizes +
\* spacing * (n - 1), the distributor is called with 0, never with a
\* negative number, every visible child gets exactly its minimum size and
\* the pass completes.
C10_Overflow ==
  /\ Done => pass.extra_space >= 0
  /\ (/\ pass.status # "none"
      /\ NVisible > 0
      /\ ~priv.is_homogeneous
      /\ Extent < SumMinimum + SpacingTotal)
       => /\ Done
          /\ pass.extra_space = 0
          /\ \A d \in VisibleSet :
               VisitOf(d).child_size = children[d].minimum_size

C10_OwnRequests == HiddenBeforeVisible \/ C10_Overflow

\* the space a homogeneous pass divides
Available == Extent - SpacingTotal

\* C4 as claimed: in a homogeneous pass every child gets
\* floor (available / n) and the first (available mod n) children visited
\* get one unit more, for every integer available, negative ones included.
C4_FloorShares ==
  (Done /\ priv.is_homogeneous) =>
    \A k \in 1..Len(pass.walk) :
      pass.walk[k].child_size =
        (Available \div NVisible)
        + (IF k <= Available % NVisible THEN 1 ELSE 0)

\* C4, amended: the claim holds for available >= 0, where the sizes add up
\* to available; for a negative available every child gets the quotient
\* truncated toward zero, - floor (- available / n), and none gets an extra
\* unit.  Extent 100, spacing 10 and n = 3 give 27, 27, 26.
C4_HomogeneousShares ==
  (Done /\ priv.is_homogeneous) =>
    /\ IF Available >= 0
       THEN /\ \A k \in 1..Len(pass.walk) :
                 pass.walk[k].child_size =
                   (Available \div NVisible)
                   + (IF k <= Available % NVisible THEN 1 ELSE 0)
            /\ SumAssigned = Available
       ELSE \A k \in 1..Len(pass.walk) :
              pass.walk[k].child_size = - ((- Available) \div NVisible)
    /\ WalkSizes(ExamplePass(ExampleChildren, 10, TRUE, TRUE).walk)
         = <<27, 27, 26>>

\* a homogeneous pass over two or more children with a negative available
\* space that n does not divide
C4_Witness ==
  /\ Done
  /\ priv.is_homogeneous
  /\ NVisible >= 2
  /\ Available < 0
  /\ Available % NVisible # 0

MaxOf(S) == CHOOSE x \in S : \A y \in S : y <= x

MinOf(S) == CHOOSE x \in S : \A y \in S : x <= y

AssignedSizes == {pass.walk[k].child_size : k \in 1..Len(pass.walk)}

\* C5: in a homogeneous pass the sizes of the visible children differ by
\* at most one, whatever they request and whether or not they expand.
C5_HomogeneousSpread ==
  (Done /\ priv.is_homogeneous) =>
    MaxOf(AssignedSizes) - MinOf(AssignedSizes) <= 1

\* a homogeneous pass that hands out a remainder to children that differ in
\* request and in expand flag
C5_Witness ==
  /\ Done
  /\ priv.is_homogeneous
  /\ MaxOf(AssignedSizes) - MinOf(AssignedSizes) = 1
  /\ \E d \in VisibleSet, f \in VisibleSet :
       /\ children[d].expand /\ ~children[f].expand
       /\ children[d].minimum_size # children[f].minimum_size

----------------------------------------------------------------------------
\* The positions of a pass (specification SpecWalk)

PrimaryFill(d) ==
  IF priv.is_vertical THEN children[d].y_fill ELSE children[d].x_fill

\* the span handed to a child along the primary axis, in Unit steps,
\* measured from the leading edge of the box (the left edge, or the right
\* edge under right-to-left text)
PrimarySpan(v) ==
  IF priv.is_vertical
  THEN <<v.child_allocation.y1, v.child_allocation.y2>>
  ELSE IF text_direction = "RTL"
       THEN <<Unit * BoxWidth(pass.box) - v.child_allocation.x2,
              Unit * BoxWidth(pass.box) - v.child_allocation.x1>>
       ELSE <<v.child_allocation.x1, v.child_allocation.x2>>

\* the children are visited from the last declared to the first, the
\* hidden ones skipped
ReverseDeclarationOrder ==
  /\ {pass.walk[k].child : k \in 1..Len(pass.walk)} = VisibleSet
  /\ \A k \in 1..(Len(pass.walk) - 1) :
       pass.walk[k].child > pass.walk[k + 1].child

\* how the span of a visit sits in its cell: a filling child starts with
\* the cell and covers it when its size is at least one unit; any other
\* child is centred in the cell and covers it when it is as large
SpanInCell(v, cell) ==
  LET span == PrimarySpan(v)
  IN  IF PrimaryFill(v.child)
      THEN /\ span[1] = cell[1]
           /\ v.child_size >= 1 => span[2] = cell[2]
      ELSE /\ span[1] + span[2] = cell[1] + cell[2]
           /\ span[2] - span[1] = Unit * v.minimum_size
           /\ v.child_size = v.minimum_size => span = cell

CellFromStart(v) ==
  <<Unit * v.cursor, Unit * (v.cursor + v.child_size)>>

CellFromEnd(v) ==
  <<Unit * (v.cursor - v.child_size), Unit * v.cursor>>

\* C7: with pack_start set the visible children are visited in reverse
\* declaration order, the cursor starts at 0, the cell of a visited child is
\* [cursor, cursor + child_size] and the cursor advances by child_size +
\* spacing, so consecutive cells are exactly spacing apart.
C7_PackStartWalk ==
  (Done /\ priv.is_pack_start) =>
    /\ ReverseDeclarationOrder
    /\ pass.walk[1].cursor = 0
    /\ \A k \in 1..Len(pass.walk) :
         SpanInCell(pass.walk[k], CellFromStart(pass.walk[k]))
    /\ \A k \in 1..(Len(pass.walk) - 1) :
         /\ pass.walk[k + 1].cursor =
              pass.walk[k].cursor + pass.walk[k].child_size + priv.spacing
         /\ CellFromStart(pass.walk[k + 1])[1]
              - CellFromStart(pass.walk[k])[2] = Unit * priv.spacing

\* a pass packed from the start over two visible children, a filling one
\* among them, with spacing between them
C7_Witness ==
  /\ Done
  /\ priv.is_pack_start
  /\ priv.spacing > 0
  /\ Len(pass.walk) >= 2
  /\ pass.walk[1].child_size >= 1
  /\ PrimaryFill(pass.walk[1].child)
  /\ ~PrimaryFill(pass.walk[2].child)

\* the visible children declared before / after the child at position d
VisibleBefore(d) == {v \in VisibleSet : v < d}

VisibleAfter(d) == {v \in VisibleSet : v > d}

RECURSIVE SumAssignedOf(_)
SumAssignedOf(S) ==
  IF S = {} THEN 0
  ELSE LET d == CHOOSE x \in S : TRUE
       IN  VisitOf(d).child_size + SumAssignedOf(S \ {d})

PackStartPlain ==
  /\ Done
  /\ priv.is_pack_start
  /\ text_direction = "LTR"
  /\ ~priv.is_homogeneous
  /\ NExpand = 0

ExampleWalk == ExamplePass(ExampleChildren, 5, FALSE, TRUE).walk

\* the start positions of the example's children, in declaration order
ExampleStarts ==
  [d \in 1..3 |->
     LET k == CHOOSE j \in 1..3 : ExampleWalk[j].child = d
     IN  ExampleWalk[k].child_allocation.x1 \div Unit]

ExampleEnd ==
  MaxOf({ExampleWalk[k].child_allocation.x2 \div Unit : k \in 1..3})

\* C8 as claimed: packed from the start, left to right, non-homogeneous and
\* without expand children, a visible child starts at the sizes of the
\* visible children declared before it plus one spacing for each of them;
\* the example's children start at 0, 15 and 40.
C8_DeclarationOrder ==
  PackStartPlain =>
    /\ \A d \in VisibleSet :
         PrimarySpan(VisitOf(d))[1] =
           Unit * (SumAssignedOf(VisibleBefore(d))
                   + Cardinality(VisibleBefore(d)) * priv.spacing)
    /\ ExampleStarts = <<0, 15, 40>>
    /\ ExampleEnd = 70

\* C8, amended: the children are placed in reverse declaration order from
\* offset 0: a visible child starts at the sizes assigned to the visible
\* children declared after it plus one spacing for each of them; the
\* example's children start at 60, 35 and 0, the layout ends at 70 and 30
\* units stay unused.
C8_ReverseOrder ==
  PackStartPlain =>
    /\ \A d \in VisibleSet :
         PrimarySpan(VisitOf(d))[1] =
           Unit * (SumAssignedOf(VisibleAfter(d))
                   + Cardinality(VisibleAfter(d)) * priv.spacing)
    /\ ExampleStarts = <<60, 35, 0>>
    /\ ExampleEnd = 70
    /\ BoxWidth(ExamplePass(ExampleChildren, 5, FALSE, TRUE).box)
         - ExampleEnd = 30

\* a plain pass packed from the start over two visible children of
\* different sizes
C8_Witness ==
  /\ PackStartPlain
  /\ Len(pass.walk) >= 2
  /\ pass.walk[1].child_size # pass.walk[2].child_size
  /\ priv.spacing > 0

\* C9: with pack_start unset the cursor starts at the extent, the cell of a
\* visited child is [cursor - child_size, cursor] and the cursor decreases
\* by child_size + spacing: the last declared visible child ends at the
\* extent, the cells follow the declaration order along the axis and what
\* is unused lies at the start of the box.
C9_PackEndWalk ==
  (Done /\ ~priv.is_pack_start) =>
    /\ ReverseDeclarationOrder
    /\ pass.walk[1].cursor = Extent
    /\ CellFromEnd(pass.walk[1])[2] = Unit * Extent
    /\ \A k \in 1..Len(pass.walk) :
         SpanInCell(pass.walk[k], CellFromEnd(pass.walk[k]))
    /\ \A k \in 1..(Len(pass.walk) - 1) :
         /\ pass.walk[k + 1].cursor =
              pass.walk[k].cursor
                - (pass.walk[k].child_size + priv.spacing)
         /\ CellFromEnd(pass.walk[k + 1])[2] =
              CellFromEnd(pass.walk[k])[1] - Unit * priv.spacing
    /\ CellFromEnd(pass.walk[Len(pass.walk)])[1] =
         Unit * (Extent - SumAssigned - SpacingTotal)

\* a pass packed from the end over two visible children that leaves space
\* unused
C9_Witness ==
  /\ Done
  /\ ~priv.is_pack_start
  /\ ~priv.is_homogeneous
  /\ Len(pass.walk) >= 2
  /\ pass.walk[1].child_size >= 1
  /\ PrimaryFill(pass.walk[1].child)
  /\ Extent - SumAssigned - SpacingTotal > 0
  /\ ~HiddenBeforeVisible

----------------------------------------------------------------------------
\* The preferred size (specification SpecMeasure)

\* the answer is the one of the query along the layout's axis
PrimaryQuery ==
  query.op = (IF priv.is_vertical THEN "get_preferred_height"
                                  ELSE "get_preferred_width")

NVisibleNow == Cardinality({d \in 1..Len(children) : children[d].visible})

SpacingNow == IF NVisibleNow <= 1 THEN 0 ELSE priv.spacing * (NVisibleNow - 1)

\* C11: the preferred size along the layout's axis is the sum of the
\* visible children's minimum (natural) sizes plus spacing * (n - 1), n the
\* number of visible children, in both orientations and text directions.
C11_PreferredPrimary ==
  PrimaryQuery =>
    /\ query.min_p =
         SumSeq([k \in 1..Len(VisibleChildren(children)) |->
                   children[VisibleChildren(children)[k]].minimum_size])
         + SpacingNow
    /\ query.natural_p =
         SumSeq([k \in 1..Len(VisibleChildren(children)) |->
                   children[VisibleChildren(children)[k]].natural_size])
         + SpacingNow

\* a query along the axis of a right-to-left or vertical layout with two
\* visible children, spacing and a natural size above the minimum
C11_Witness ==
  /\ PrimaryQuery
  /\ priv.is_vertical \/ text_direction = "RTL"
  /\ priv.spacing > 0
  /\ NVisibleNow >= 2
  /\ query.natural_p > query.min_p

----------------------------------------------------------------------------
\* Animated transitions and failed passes (specification SpecAnim)

\* this step is an allocation pass that went through the position walk
PassStep == pass.status = "none" /\ pass'.status = "done"

\* this step is an allocation pass run while a transition is active
AnimatedPassStep ==
  PassStep /\ priv.use_animations /\ priv.is_animating

\* what the children visited by the pass of this step are given: the
\* interpolation from the recorded allocation when there is one, the fresh
\* rectangle when there is none
GivenInterpolation ==
  \A k \in 1..Len(pass'.walk) :
    LET v == pass'.walk[k]
        before == children[v.child]
    IN  v.allocation =
          IF before.has_last_allocation
          THEN clutter_actor_box_interpolate(before.last_allocation,
                                             v.final_child_box, progress)
          ELSE Exactly(v.final_child_box)

\* C12 as claimed: in a pass run while a transition is active a child is
\* given the interpolation from its recorded allocation (the fresh
\* rectangle when it has none), and after the pass the recorded allocation
\* of every visited child is the fresh rectangle.
C12_RecordsFresh ==
  [][AnimatedPassStep =>
       /\ GivenInterpolation
       /\ \A k \in 1..Len(pass'.walk) :
            LET v == pass'.walk[k]
            IN  /\ children'[v.child].has_last_allocation
                /\ children'[v.child].last_allocation = v.final_child_box
    ]_vars

\* C12 as the code has it: in a pass run while a transition is active a
\* child is given the interpolation from its recorded allocation and the
\* record stays as it was (it is the start of the transition); a child
\* without a record is given the fresh rectangle, which becomes its record.
\* The record is written at most once per child and pass.
C12_KeepsStart ==
  [][AnimatedPassStep =>
       /\ GivenInterpolation
       /\ \A k \in 1..Len(pass'.walk) :
            LET v == pass'.walk[k]
                before == children[v.child]
                after == children'[v.child]
            IN  /\ after.has_last_allocation
                /\ after.last_allocation =
                     IF before.has_last_allocation
                     THEN before.last_allocation
                     ELSE v.final_child_box
    ]_vars

\* a pass half way through a transition has given a child a rectangle
\* that is neither its recorded allocation nor the fresh one
C12_Witness ==
  /\ Done
  /\ priv.use_animations /\ priv.is_animating
  /\ \E k \in 1..Len(pass.walk) :
       LET v == pass.walk[k]
       IN  /\ v.allocation # Exactly(v.final_child_box)
           /\ v.allocation # Exactly(children[v.child].last_allocation)
           /\ children[v.child].last_allocation # v.final_child_box

\* a visible child reports a size the pass rejects
InvalidRequest(ch) ==
  \E d \in 1..Len(ch) :
    /\ ch[d].visible
    /\ ch[d].minimum_size < 0 \/ ch[d].natural_size < ch[d].minimum_size

\* C13: a pass over a container with a visible child that reports a
\* minimum size below 0 or a natural size below its minimum size ends in
\* the fatal error, gives no child a rectangle and leaves every record of
\* a last allocation as it was.
C13_FatalPass ==
  [][(pass.status = "none" /\ pass'.status # "none"
       /\ InvalidRequest(children))
       => /\ pass'.status = "fatal"
          /\ pass'.walk = <<>>
          /\ children' = children
    ]_vars

\* a pass has failed on a container whose children had been allocated
C13_Witness ==
  /\ pass.status = "fatal"
  /\ InvalidRequest(children)
  /\ \E d \in 1..Len(children) : children[d].has_last_allocation


----------------------------------------------------------------------------
\* C14: while no container is attached, a call of clutter_box_layout_pack,
\* set_alignment, get_alignment, set_fill, get_fill, set_expand or
\* get_expand only emits a warning: the children and their layout
\* properties, the layout manager, the recorded pass, the cached preferred
\* size and the animation stay as they were, and get_expand returns FALSE.

\* the step is a call of the per-child API
ApiCallStep == call' # call

C14_MissingContainerNoOp ==
  [][(priv.container = "NULL" /\ ApiCallStep) =>
       /\ call'.warning
       /\ children' = children
       /\ priv' = priv
       /\ pass' = pass
       /\ query' = query
       /\ progress' = progress
       /\ (call'.op = "get_expand" => call'.value = FALSE)]_vars

\* get_expand has warned and returned FALSE for an expanding child of a
\* detached layout manager whose pass is still on record and whose
\* animations are switched on
C14_Witness ==
  /\ priv.container = "NULL"
  /\ call.op = "get_expand" /\ call.warning /\ call.value = FALSE
  /\ Len(children) > 0 /\ children[1].expand
  /\ pass.status = "done"
  /\ priv.use_animations /\ ~priv.is_animating


----------------------------------------------------------------------------
\* C15: for a child that expands and does not fill along the primary axis,
\* in a cell larger than the child's own size, the alignment along that
\* axis places the child's span in its cell: START at the start of the
\* cell, END at its end, CENTER in the middle.

\* the cell of a visited child along the primary axis, in Unit steps: the
\* child_size pixels the cursor walks over
CellSpan(p, visit) ==
  IF p.is_pack_start
  THEN <<Unit * visit.cursor, Unit * (visit.cursor + visit.child_size)>>
  ELSE <<Unit * (visit.cursor - visit.child_size), Unit * visit.cursor>>

\* the child's span along the primary axis as
\* clutter_actor_allocate_align_fill() computed it
VisitSpan(p, visit) ==
  IF p.is_vertical
  THEN <<visit.final_child_box.y1, visit.final_child_box.y2>>
  ELSE <<visit.final_child_box.x1, visit.final_child_box.x2>>

VisitAlign(p, box_child) ==
  IF p.is_vertical THEN box_child.y_align ELSE box_child.x_align

VisitFill(p, box_child) ==
  IF p.is_vertical THEN box_child.y_fill ELSE box_child.x_fill

\* the visited child expands, does not fill, and its cell is larger than
\* its own size
ExpandsWithoutFill(p, visit) ==
  /\ visit.box_child.expand
  /\ ~VisitFill(p, visit.box_child)
  /\ visit.child_size > visit.box_child.minimum_size

C15_AlignmentInCell ==
  Done =>
    \A k \in 1..Len(pass.walk) :
      LET visit == pass.walk[k]
          cell  == CellSpan(priv, visit)
          span  == VisitSpan(priv, visit)
          align == VisitAlign(priv, visit.box_child)
      IN  ExpandsWithoutFill(priv, visit) =>
            /\ align = "START" => span[1] = cell[1]
            /\ align = "END" => span[2] = cell[2]
            /\ align = "CENTER" =>
                 (span[1] - cell[1]) - (cell[2] - span[2]) \in {-1, 0, 1}


----------------------------------------------------------------------------
\* C16: the right-to-left mirroring of a child's horizontal span, new_x1 =
\* box_width - x1 - (x2 - x1) and new_x2 = new_x1 + (x2 - x1), keeps the
\* width of the span and, applied twice, gives the span back; a pass
\* applies it when the layout is horizontal and the text direction is
\* right-to-left, and never when the layout is vertical.

\* the span of a visited child before the mirroring
UnmirroredSpan(visit) ==
  ChildSpan(priv, visit.box_child, visit.cursor, visit.child_size,
            visit.minimum_size)

\* the span of the rectangle handed to allocate_box_child()
HandedSpan(visit) ==
  IF priv.is_vertical
  THEN <<visit.child_allocation.y1, visit.child_allocation.y2>>
  ELSE <<visit.child_allocation.x1, visit.child_allocation.x2>>

C16_MirrorInvolution ==
  Done =>
    \A k \in 1..Len(pass.walk) :
      LET span     == UnmirroredSpan(pass.walk[k])
          mirrored == MirrorSpan(pass.box, span)
          width    == Unit * BoxWidth(pass.box)
      IN  /\ MirrorSpan(pass.box, mirrored) = span
          /\ mirrored[2] - mirrored[1] = span[2] - span[1]
          /\ HandedSpan(pass.walk[k]) =
               IF ~priv.is_vertical /\ text_direction = "RTL"
               THEN <<width - span[2], width - span[1]>>
               ELSE span

\* a horizontal right-to-left pass over two children, the first visited of
\* which is handed a span that the mirroring has moved
C16_Witness ==
  /\ Done
  /\ ~priv.is_vertical /\ text_direction = "RTL"
  /\ Len(pass.walk) >= 2
  /\ HandedSpan(pass.walk[1]) # UnmirroredSpan(pass.walk[1])
  /\ HandedSpan(pass.walk[1])[2] > HandedSpan(pass.walk[1])[1]


----------------------------------------------------------------------------
\* C17: after clutter_scroll_actor_scroll_to_point(actor, p), once no
\* further scroll call is made and the running transition has been allowed
\* to complete, the scroll origin is p and stays p: whatever the easing
\* state was and whether or not a transition was running when the call was
\* made.  (At most MaxCalls calls are made, and a running timeline keeps
\* delivering frames.)
C17_ReachesPoint == <>[](scroll.scroll_to = scroll.point)

----------------------------------------------------------------------------
\* C18: whatever clutter_entry_set_text, set_position, add, remove,
\* insert_text and delete_text calls were made, the position that
\* clutter_entry_get_position returns is -1 or at most the number of
\* characters of the text.
clutter_entry_get_position == entry.position

C18_PositionWithinText ==
  \/ clutter_entry_get_position = -1
  \/ clutter_entry_get_position <= Len(entry.text)


----------------------------------------------------------------------------
\* What a call of distribute_natural_allocation() shows (specification
\* SpecDistribute)

Distributed == pass.status = "distributed"

\* what the call added to request k
Added(k) == pass.sizes[k].minimum_size - pass.requested[k].minimum_size

\* natural_size - minimum_size of request k before the call
GapOf(k) == pass.requested[k].natural_size - pass.requested[k].minimum_size

TotalAdded == SumSeq([k \in 1..Len(pass.requested) |-> Added(k)])

\* C19: for an extra_space >= 0, distribute_natural_allocation adds to no
\* request more than its gap natural_size - minimum_size: afterwards
\* minimum_size <= natural_size holds for every request and no
\* minimum_size has decreased.
C19_NeverBeyondGap ==
  (Distributed /\ pass.extra_space >= 0) =>
    \A k \in 1..Len(pass.requested) :
      /\ Added(k) <= GapOf(k)
      /\ pass.sizes[k].minimum_size <= pass.sizes[k].natural_size
      /\ Added(k) >= 0
      /\ pass.sizes[k].natural_size = pass.requested[k].natural_size

\* a call that has brought one request up to its natural size while another
\* request, with more space on offer than its neighbour took, stays below
C19_Witness ==
  /\ Distributed
  /\ pass.extra_space > 0
  /\ \E j, k \in 1..Len(pass.requested) :
       /\ Added(j) = GapOf(j) /\ GapOf(j) > 0
       /\ Added(k) > 0 /\ Added(k) < GapOf(k)

\* C20: for an extra_space >= 0, the space added to all requests together
\* is at most extra_space, the returned leftover is not negative, and the
\* space added plus the leftover is extra_space.
C20_Conservation ==
  (Distributed /\ pass.extra_space >= 0) =>
    /\ TotalAdded <= pass.extra_space
    /\ pass.leftover >= 0
    /\ TotalAdded + pass.leftover = pass.extra_space

\* a call that has handed out space to several requests and returns a
\* leftover
C20_Witness ==
  /\ Distributed
  /\ pass.leftover > 0
  /\ \E j, k \in 1..Len(pass.requested) :
       j # k /\ Added(j) > 0 /\ Added(k) > Added(j)


----------------------------------------------------------------------------
\* C21: distribute_natural_allocation hands out the slack to the requests
\* in descending order of (gap, original index): a request served earlier
\* has a larger gap than one served later, or the same gap and a higher
\* index.

\* the gap compare_gap() sorts request k by
SortGap(k) == MAX(GapOf(k), 0)

\* request j is served right before request k
ServedInTurn(j, k) ==
  \E t \in 1..(Len(pass.served) - 1) :
    pass.served[t] = j /\ pass.served[t + 1] = k

C21_DescendingService ==
  (Distributed /\ pass.extra_space >= 0) =>
    \A j, k \in 1..Len(pass.requested) :
      ServedInTurn(j, k) =>
        \/ SortGap(j) > SortGap(k)
        \/ SortGap(j) = SortGap(k) /\ j > k

\* C21, as the code has it: the array is sorted in descending order of
\* (gap, original index) and the loop walks it from its end, so the slack
\* is handed out in ascending order: a request served earlier has a smaller
\* gap than one served later, or the same gap and a lower index.
C21_AscendingService ==
  (Distributed /\ pass.extra_space >= 0) =>
    /\ \A j, k \in 1..Len(pass.requested) :
         ServedInTurn(j, k) =>
           \/ SortGap(j) < SortGap(k)
           \/ SortGap(j) = SortGap(k) /\ j < k
    /\ \A t, u \in 1..Len(pass.served) :
         t # u => pass.served[t] # pass.served[u]

\* a call that has served three requests, two of them with the same gap
C21_Witness ==
  /\ Distributed
  /\ Len(pass.served) = 3
  /\ SortGap(pass.served[1]) = SortGap(pass.served[2])
  /\ SortGap(pass.served[2]) < SortGap(pass.served[3])
  /\ pass.leftover = 0


----------------------------------------------------------------------------
\* C22: the distribution maximizes the number of requests that reach their
\* natural size: no set of requests whose gaps fit together into
\* extra_space is larger than the set of requests the call has brought to
\* their natural size.

\* the requests at their natural size after the call
ReachedNatural ==
  {k \in 1..Len(pass.requested) :
     pass.sizes[k].minimum_size = pass.sizes[k].natural_size}

\* the space it takes to bring the requests of S to their natural size
GapSum(S) ==
  SumSeq([k \in 1..Len(pass.requested) |-> IF k \in S THEN GapOf(k) ELSE 0])

C22_MaximizesNatural ==
  (Distributed /\ pass.extra_space >= 0) =>
    \A S \in SUBSET (1..Len(pass.requested)) :
      GapSum(S) <= pass.extra_space =>
        Cardinality(S) <= Cardinality(ReachedNatural)


----------------------------------------------------------------------------
\* C23: after a call, a request that has not reached its natural size has
\* received at least as much space as any request that has reached it.
C23_FairShares ==
  (Distributed /\ pass.extra_space >= 0) =>
    \A i, j \in 1..Len(pass.requested) :
      (i \in ReachedNatural /\ j \notin ReachedNatural) =>
        Added(j) >= Added(i)

\* C23, up to the rounding of the shares: the request that stays below its
\* natural size has received at most one pixel less
C23_FairSharesRounded ==
  (Distributed /\ pass.extra_space >= 0) =>
    \A i, j \in 1..Len(pass.requested) :
      (i \in ReachedNatural /\ j \notin ReachedNatural) =>
        Added(j) >= Added(i) - 1


\* a call after which a request that took two pixels has reached its
\* natural size while a request with a larger gap has received one pixel
C23_Witness ==
  /\ Distributed
  /\ \E i, j \in 1..Len(pass.requested) :
       /\ i \in ReachedNatural /\ j \notin ReachedNatural
       /\ Added(i) = 2 /\ Added(j) = 1


----------------------------------------------------------------------------
\* C24: distribute_natural_allocation returns a positive leftover only if
\* every request has been brought up to its natural size; while a request
\* stays below its natural size the leftover is 0 and all of extra_space
\* has been handed out.
C24_LeftoverOnlyWhenNatural ==
  (Distributed /\ pass.extra_space >= 0) =>
    /\ pass.leftover > 0 => ReachedNatural = 1..Len(pass.requested)
    /\ ReachedNatural # 1..Len(pass.requested) =>
         pass.leftover = 0 /\ TotalAdded = pass.extra_space

\* a call that stops short of the natural size of some request after it
\* has brought another one there, and a leftover of 0
C24_Witness ==
  /\ Distributed
  /\ pass.extra_space > 0 /\ pass.leftover = 0
  /\ \E i, j \in 1..Len(pass.requested) :
       /\ i \in ReachedNatural /\ Added(i) > 0
       /\ j \notin ReachedNatural /\ Added(j) > 0


----------------------------------------------------------------------------
\* C25: a call of distribute_natural_allocation with a negative extra_space
\* fails fast: it is reported as an error and does not return to its caller
\* with a result, and no request's minimum_size is modified.
C25_FailsFast ==
  /\ pass.status = "distributed" =>
       /\ pass.extra_space >= 0
       /\ ~pass.critical
  /\ pass.status = "aborted" => pass.extra_space < 0

\* C25 (amended): a call with a negative extra_space modifies no request and
\* serves none; it ends the program only when criticals are fatal; by default
\* it logs a critical and returns 0 to its caller, and where the checks are
\* compiled out it returns extra_space as it is, without a report.
C25_ReturnsUnmodified ==
  /\ (Distributed /\ pass.extra_space < 0) =>
       /\ pass.sizes = pass.requested
       /\ pass.served = <<>>
       /\ pass.checks \in {"critical", "disabled"}
       /\ pass.checks = "critical" => pass.critical /\ pass.leftover = 0
       /\ pass.checks = "disabled" =>
            ~pass.critical /\ pass.leftover = pass.extra_space
  /\ pass.status = "aborted" =>
       pass.extra_space < 0 /\ pass.checks = "fatal"
  /\ (Distributed /\ pass.extra_space >= 0) => ~pass.critical

\* a call with a negative extra_space and requests below their natural size
\* that has returned to its caller
C25_Witness ==
  /\ Distributed
  /\ pass.extra_space < 0 /\ pass.checks = "critical"
  /\ Len(pass.requested) >= 2
  /\ \E k \in 1..Len(pass.requested) : GapOf(k) > 0


----------------------------------------------------------------------------
\* C26: every visible child visited by the position walk of a
\* non-homogeneous pass is sized from its own request: the index i it uses
\* into sizes[] lies within the array of the visible children's requests and
\* sizes[i] is the request that was built for the child being placed.
C26_OwnRequestIndex ==
  (Done /\ ~priv.is_homogeneous) =>
    \A k \in 1..Len(pass.walk) :
      /\ pass.walk[k].i \in 1..NVisible
      /\ pass.sizes[pass.walk[k].i].actor = pass.walk[k].child


----------------------------------------------------------------------------
\* C27: in a non-homogeneous pass with every child visible and an extent of
\* at least the minimum sizes plus the spacing, every span handed to
\* allocate_box_child lies within [0, extent] and the spans of two different
\* children do not overlap (they may touch).

\* a non-homogeneous pass over visible children that has room for them
RoomyPass ==
  /\ Done
  /\ ~priv.is_homogeneous
  /\ \A d \in 1..Len(children) : children[d].visible
  /\ Extent >= SumMinimum + SpacingTotal

Within(span, extent) ==
  0 <= span[1] /\ span[1] <= span[2] /\ span[2] <= Unit * extent

Overlap(s, t) == s[1] < t[2] /\ t[1] < s[2]

\* the visited child fills its cell and its cell is empty
EmptyFillCell(visit) ==
  VisitFill(priv, visit.box_child) /\ visit.child_size = 0

C27_SpansWithinBox ==
  RoomyPass =>
    /\ \A k \in 1..Len(pass.walk) : Within(HandedSpan(pass.walk[k]), Extent)
    /\ \A k, l \in 1..Len(pass.walk) :
         k # l => ~Overlap(HandedSpan(pass.walk[k]), HandedSpan(pass.walk[l]))

\* C27 for the passes without an empty cell that is filled
C27_NoEmptyFillCell ==
  (RoomyPass /\ \A k \in 1..Len(pass.walk) : ~EmptyFillCell(pass.walk[k])) =>
    /\ \A k \in 1..Len(pass.walk) : Within(HandedSpan(pass.walk[k]), Extent)
    /\ \A k, l \in 1..Len(pass.walk) :
         k # l => ~Overlap(HandedSpan(pass.walk[k]), HandedSpan(pass.walk[l]))


----------------------------------------------------------------------------
\* C28: whenever a container is attached to the layout, the container's
\* request mode matches the orientation of the layout: HEIGHT_FOR_WIDTH if
\* and only if the layout is vertical, after any sequence of set_container
\* and clutter_box_layout_set_vertical calls.
C28_RequestModeMatches ==
  Attached => priv.request_mode = RequestModeOf(priv.is_vertical)

\* a call of the setter of the property
SetterStep(prop) == call'.calls = call.calls + 1 /\ call'.op = prop

\* C28 as far as it holds: the request mode is the one of the orientation
\* the layout had when the container was attached
C28_MatchesAtAttach ==
  [][(priv'.container # "NULL" /\ priv'.container # priv.container)
       => priv'.request_mode = RequestModeOf(priv'.is_vertical)]_vars


----------------------------------------------------------------------------
\* C29: a setter of spacing, vertical, homogeneous, pack-start or of a
\* child's alignment, fill or expand that is called with the value the
\* property has changes no state and calls neither begin_animation nor
\* layout_changed nor notify; called with another value it stores the value
\* and calls exactly one of begin_animation (when use_animations is set;
\* is_animating is set then) and layout_changed (otherwise).  The setters of
\* use-animations, easing-mode and easing-duration call neither.

\* the value the property has (the container has one child)
CurrentValue(prop) ==
  IF prop \in LayoutProperties
  THEN priv[LayoutField(prop)]
  ELSE children[1][ChildField(prop)]

StoredValue(prop) ==
  IF prop \in LayoutProperties
  THEN priv'[LayoutField(prop)]
  ELSE children'[1][ChildField(prop)]

C29_SettersSignal ==
  [][\A prop \in LayoutProperties \cup ChildProperties :
       SetterStep(prop) =>
         IF prop \in {"use-animations", "easing-mode", "easing-duration"}
         THEN /\ call'.begin_animation = 0
              /\ call'.layout_changed = 0
              /\ priv'.is_animating = priv.is_animating
              /\ StoredValue(prop) = call'.value
              /\ UNCHANGED <<children, pass, query, progress>>
         ELSE IF call'.value = CurrentValue(prop)
         THEN /\ UNCHANGED <<children, priv, pass, query, progress>>
              /\ call'.begin_animation = 0
              /\ call'.layout_changed = 0
              /\ call'.notify = <<>>
         ELSE /\ StoredValue(prop) = call'.value
              /\ call'.begin_animation + call'.layout_changed = 1
              /\ call'.begin_animation = 1 <=> priv.use_animations
              /\ call'.begin_animation = 1 => priv'.is_animating
              /\ call'.layout_changed = 1 =>
                   priv'.is_animating = priv.is_animating
              /\ call'.notify = <<prop>>]_vars

\* a setter has begun an animation after another call switched the
\* animations on
C29_Witness ==
  /\ call.op \in {"spacing", "expand"}
  /\ call.calls = 2
  /\ call.begin_animation = 1 /\ call.layout_changed = 0
  /\ priv.use_animations /\ priv.is_animating


----------------------------------------------------------------------------
\* C30: animated transitions are continuous across restarts: when a layout
\* property changes while a transition is in progress (begin_animation is
\* called again before end_animation), the first allocation pass of the new
\* transition, at progress 0, delivers to every child the rectangle that was
\* most recently delivered to it.

\* a setter calls begin_animation while a transition is in progress, right
\* after a pass of that transition
RestartStep ==
  /\ pass.status = "done"
  /\ priv.use_animations /\ priv.is_animating
  /\ priv'.use_animations /\ priv'.is_animating
  /\ priv'.spacing # priv.spacing
  /\ pass'.status = "none" /\ progress' = 0

\* the first pass of the new transition, on the box of the pass before
FirstPass(garbage) ==
  AllocatePass(children', priv', text_direction', pass.box, garbage, progress')

C30_ContinuousRestart ==
  [][RestartStep =>
       \A garbage \in [OutOfBounds(children') -> Garbage] :
         \A k \in 1..Len(FirstPass(garbage).walk) :
           LET v == FirstPass(garbage).walk[k]
           IN  v.allocation = VisitOf(v.child).allocation
    ]_vars

\* C30 as the code has it: the first pass of the new transition delivers to
\* every child its recorded allocation, the start of the transition before
C30_RestartsFromRecord ==
  [][RestartStep =>
       \A garbage \in [OutOfBounds(children') -> Garbage] :
         \A k \in 1..Len(FirstPass(garbage).walk) :
           LET v == FirstPass(garbage).walk[k]
           IN  v.allocation = Exactly(children'[v.child].last_allocation)
    ]_vars

====
